---- MODULE Spec2Model ----
(***************************************************************************)
(* Model of the authorization layer (src/api/src/security/rbac/rbac.py)   *)
(* and of the course / contributor / chapter services that call it.       *)
(*                                                                         *)
(* The relational store is the state: one variable per table.  A           *)
(* ResourceAuthor row's id is its position in the table's sequence; the    *)
(* link tables are bags of rows (rows that agree on every modelled column  *)
(* are interchangeable).  A query without ORDER BY returns its rows in an  *)
(* order SQL leaves unspecified, so `.first()` on such a query is a choice *)
(* among the matching rows.                                                *)
(***************************************************************************)
EXTENDS Integers, Sequences, FiniteSets, Bags, TLC

VARIABLES
    courses,            \* table Course: set of rows [id, org_id, name, description, public]
    nextCourse,         \* next primary key / uuid of table Course
    authors,            \* table ResourceAuthor: sequence of rows
    userorgs,           \* table UserOrganization: set of rows [user_id, org_id, role_id]
    orgs,               \* table Organization: set of rows [id, slug]
    nextOrg,            \* next primary key of table Organization
    chapters,           \* table Chapter: set of rows [id, course_id, org_id, name, description]
    nextChapter,        \* next primary key of table Chapter
    course_chapters,    \* table CourseChapter: bag of rows
    activities,         \* table Activity: set of rows [id, course_id, org_id]
    nextActivity,       \* next primary key of table Activity
    chapter_activities, \* table ChapterActivity: bag of rows
    usergroup_resources, \* table UserGroupResource: set of rows [usergroup_id, resource_uuid]
    usergroup_users,    \* table UserGroupUser: set of rows [usergroup_id, user_id]
    thumbnail_image,    \* column Course.thumbnail_image: set of pairs <<course id, file name>>
    storage,            \* the upload sink: the file names written to it
    reorder,            \* the reorder request being processed, statement by statement
    requests,           \* the create requests followed statement by statement
    last                \* the last call made and what it returned

\* The tables of the course content.
content == <<chapters, nextChapter, course_chapters,
             activities, nextActivity, chapter_activities>>

\* The tables of the user groups.
groups == <<usergroup_resources, usergroup_users>>

\* The thumbnail column and the files it names.
uploads == <<thumbnail_image, storage>>

vars == <<courses, nextCourse, authors, userorgs, orgs, nextOrg, content, groups, requests, uploads,
          reorder, last>>

(***************************************************************************)
(* Bounds of the model.                                                    *)
(***************************************************************************)
NumUsers == 2
NumOrgs == 2
MaxCourses == 1
MaxMemberships == 1
MaxNewOrgs == 1
MaxChapters == 2
MaxActivities == 3
MaxLen == 2

ANON == 0
Users == 1..NumUsers
Subjects == {ANON} \cup Users
OrgIds == 1..NumOrgs

NULL == 0

\* No reorder request is being processed.
IDLE == [pc |-> "idle"]

\* The create requests that run side by side, each in its own session.
AppendRequests == 2
RequestIds == 1..AppendRequests

Actions == {"create", "read", "update", "delete"}
Authorships == {"CREATOR", "CONTRIBUTOR", "MAINTAINER", "REPORTER"}
AuthorshipStatuses == {"ACTIVE", "PENDING", "INACTIVE"}

(***************************************************************************)
(* Element uuids: <<prefix, n>> stands for the string "<prefix>_<n>";     *)
(* n = 0 is the placeholder "<prefix>_x" the create operations pass.      *)
(***************************************************************************)
CourseUuid(n) == <<"course", n>>
OrgUuid(n) == <<"org", n>>
COURSE_X == <<"course", 0>>

check_element_type(element_uuid) ==
    CASE element_uuid[1] = "course" -> "courses"
      [] element_uuid[1] = "chapter" -> "coursechapters"
      [] element_uuid[1] = "activity" -> "activities"
      [] element_uuid[1] = "org" -> "organizations"
      [] OTHER -> "unknown"

ElementTypes == {"courses", "coursechapters", "activities", "organizations"}

(***************************************************************************)
(* Table Role.  Roles 1 (admin), 2 (maintainer) and 4 (user) are the      *)
(* standard roles (org_id null); role 5 is a custom role of organization  *)
(* 2 that lets its holders read and update courses.                       *)
(***************************************************************************)
AllRights == [t \in ElementTypes |-> [a \in Actions |-> TRUE]]
ReadOnly == [t \in ElementTypes |-> [a \in Actions |-> (t = "courses" /\ a = "read")]]
EditCourses == [t \in ElementTypes |->
                  [a \in Actions |-> (t = "courses" /\ a \in {"read", "update"})]]

Roles ==
    (1 :> [org_id |-> NULL, rights |-> AllRights]) @@
    (2 :> [org_id |-> NULL, rights |-> AllRights]) @@
    (4 :> [org_id |-> NULL, rights |-> ReadOnly]) @@
    (5 :> [org_id |-> 2, rights |-> EditCourses])

RoleIds == DOMAIN Roles

(***************************************************************************)
(* security/rbac/rbac.py                                                   *)
(***************************************************************************)
Forbidden == {"403_login", "403_rights", "403_roles_authorship", "403_admin"}

\* Mutant: the query forgets Course.public == True.
PublicCourseAnyFlag(element_uuid) ==
    \E c \in courses : CourseUuid(c.id) = element_uuid

\* select(Course).where(Course.public == True, Course.course_uuid == uuid).first()
PublicCourse(element_uuid) ==
    \E c \in courses : c.public /\ CourseUuid(c.id) = element_uuid

authorization_verify_if_element_is_public(element_uuid, action) ==
    IF check_element_type(element_uuid) = "courses" /\ action = "read"
    THEN IF PublicCourse(element_uuid) THEN "200" ELSE "403_rights"
    ELSE "403_rights"

\* The rows select(ResourceAuthor).where(resource_uuid == uuid) matches.
AuthorRows(element_uuid) ==
    {i \in DOMAIN authors : authors[i].resource_uuid = element_uuid}

\* What .first() of that query may return: no row (0), or any matching row.
FirstAuthor(element_uuid) ==
    IF AuthorRows(element_uuid) = {} THEN {0} ELSE AuthorRows(element_uuid)

GrantingAuthorships == {"CREATOR", "MAINTAINER", "CONTRIBUTOR"}

\* Mutant: the authorship status is not looked at.
author_ignoring_status(user_id, action, resource_author) ==
    IF action = "create" THEN TRUE
    ELSE /\ resource_author # 0
         /\ authors[resource_author].user_id = user_id
         /\ authors[resource_author].authorship \in GrantingAuthorships

\* Mutant: create is checked against the authorship rows like the other actions.
author_checking_create(user_id, action, resource_author) ==
    /\ resource_author # 0
    /\ authors[resource_author].user_id = user_id
    /\ authors[resource_author].authorship \in GrantingAuthorships
    /\ authors[resource_author].authorship_status = "ACTIVE"

authorization_verify_if_user_is_author(user_id, action, resource_author) ==
    IF action = "create" THEN TRUE
    ELSE IF action \in {"update", "delete", "read"}
    THEN IF resource_author # 0
         THEN IF authors[resource_author].user_id = user_id
              THEN /\ authors[resource_author].authorship \in GrantingAuthorships
                   /\ authors[resource_author].authorship_status = "ACTIVE"
              ELSE FALSE
         ELSE FALSE
    ELSE FALSE

\* select(Role).join(UserOrganization)
\*   .where((UserOrganization.org_id == Role.org_id) | (Role.org_id == null()))
\*   .where(UserOrganization.user_id == user_id)
user_roles_in_organization_and_standard_roles(user_id) ==
    {uo.role_id : uo \in
        {uo \in userorgs :
            /\ uo.role_id \in RoleIds
            /\ uo.user_id = user_id
            /\ \/ uo.org_id = Roles[uo.role_id].org_id
               \/ Roles[uo.role_id].org_id = NULL}}

\* Mutant: the role's read permission is taken for every action.
roles_reading_action_read(user_id, action, element_uuid) ==
    \E role \in user_roles_in_organization_and_standard_roles(user_id) :
        /\ check_element_type(element_uuid) \in DOMAIN Roles[role].rights
        /\ Roles[role].rights[check_element_type(element_uuid)]["read"]

authorization_verify_based_on_roles(user_id, action, element_uuid) ==
    \E role \in user_roles_in_organization_and_standard_roles(user_id) :
        /\ check_element_type(element_uuid) \in DOMAIN Roles[role].rights
        /\ Roles[role].rights[check_element_type(element_uuid)][action]

AdminRoleIds == {1, 2}

authorization_verify_based_on_org_admin_status(user_id) ==
    \E role \in user_roles_in_organization_and_standard_roles(user_id) :
        role \in AdminRoleIds

\* Mutant: the role-or-authorship check lets every caller through.
roles_and_authorship_always_pass(user_id, action, element_uuid, resource_author) == "200"

authorization_verify_based_on_roles_and_authorship(user_id, action, element_uuid, resource_author) ==
    IF \/ authorization_verify_if_user_is_author(user_id, action, resource_author)
       \/ authorization_verify_based_on_roles(user_id, action, element_uuid)
    THEN "200"
    ELSE "403_roles_authorship"

\* Mutant: the anonymous user is let through.
anon_never_raises(user_id) == FALSE

\* TRUE when the call raises "You should be logged in to perform this action".
authorization_verify_if_user_is_anon(user_id) == user_id = 0

(***************************************************************************)
(* rbac_check of services/courses/courses.py (chapters.py and             *)
(* activities.py carry the same function).                                 *)
(***************************************************************************)
rbac_check(element_uuid, user_id, action, resource_author) ==
    IF action = "read"
    THEN IF user_id = 0
         THEN authorization_verify_if_element_is_public(element_uuid, action)
         ELSE authorization_verify_based_on_roles_and_authorship(
                  user_id, action, element_uuid, resource_author)
    ELSE IF authorization_verify_if_user_is_anon(user_id)
         THEN "403_login"
         ELSE authorization_verify_based_on_roles_and_authorship(
                  user_id, action, element_uuid, resource_author)

\* rbac_check of services/orgs/orgs.py, for a PublicUser or AnonymousUser.
org_rbac_check(user_id, action) ==
    IF action = "read" THEN "200"
    ELSE IF authorization_verify_if_user_is_anon(user_id) THEN "403_login"
    ELSE IF ~authorization_verify_based_on_org_admin_status(user_id) THEN "403_admin"
    ELSE "200"

(***************************************************************************)
(* The record of a call: the operation, its caller, the action and the    *)
(* element the authorization was asked for, the contributor a contributor *)
(* update targets, the outcome (HTTP status and variant), and what the    *)
(* authorship check and the role check answered when they were asked.     *)
(***************************************************************************)
Call(op, user_id, action, element_uuid, target, outcome, resource_author) ==
    [op |-> op, user_id |-> user_id, action |-> action,
     element_uuid |-> element_uuid, target |-> target, outcome |-> outcome,
     isAuthor |-> /\ user_id # 0
                  /\ authorization_verify_if_user_is_author(user_id, action, resource_author),
     isRole |-> /\ user_id # 0
                /\ authorization_verify_based_on_roles(user_id, action, element_uuid)]

Failed(op, user_id, action, element_uuid, target, outcome) ==
    [op |-> op, user_id |-> user_id, action |-> action,
     element_uuid |-> element_uuid, target |-> target, outcome |-> outcome,
     isAuthor |-> FALSE, isRole |-> FALSE]

CourseRow(n) == CHOOSE c \in courses : c.id = n
CourseExists(n) == \E c \in courses : c.id = n

\* The thumbnail columns of the given Course rows.
ThumbnailsOf(rows) == {t \in thumbnail_image : \E c \in rows : c.id = t[1]}

OrgExists(org_id) == \E o \in orgs : o.id = org_id

\* The memberships the organization-user services have created so far.
RECURSIVE MembershipSets(_)
MembershipSets(k) ==
    IF k = 0 THEN {{}}
    ELSE MembershipSets(k - 1) \cup
         {m \cup {uo} : m \in MembershipSets(k - 1),
                        uo \in [user_id : Users, org_id : OrgIds, role_id : RoleIds]}

Memberships == MembershipSets(MaxMemberships)

Init ==
    /\ courses = {}
    /\ nextCourse = 1
    /\ authors = <<>>
    /\ orgs = {[id |-> o, slug |-> o, name |-> o] : o \in OrgIds}
    /\ nextOrg = NumOrgs + 1
    /\ userorgs \in Memberships
    /\ chapters = {}
    /\ nextChapter = 1
    /\ course_chapters = EmptyBag
    /\ activities = {}
    /\ nextActivity = 1
    /\ chapter_activities = EmptyBag
    /\ usergroup_resources = {}
    /\ usergroup_users = {}
    /\ thumbnail_image = {}
    /\ storage = {}
    /\ requests = [r \in RequestIds |-> IDLE]
    /\ reorder = IDLE
    /\ last = Failed("init", 0, "read", COURSE_X, 0, "200")

\* rbac_check(request, uuid, current_user, action, db_session) on its own.
RbacCheck(user_id, action, element_uuid) ==
    /\ \E resource_author \in FirstAuthor(element_uuid) :
          last' = Call("rbac_check", user_id, action, element_uuid, 0,
                       rbac_check(element_uuid, user_id, action, resource_author),
                       resource_author)
    /\ UNCHANGED <<courses, nextCourse, authors, userorgs, orgs, nextOrg, content,
                   groups, requests, uploads, reorder>>

\* services/orgs/orgs.py rbac_check(request, org_uuid, current_user, action, db_session)
OrgRbacCheck(user_id, action, org_id) ==
    /\ OrgExists(org_id)
    /\ last' = Failed("org_rbac_check", user_id, action, OrgUuid(org_id), 0,
                      org_rbac_check(user_id, action))
    /\ UNCHANGED <<courses, nextCourse, authors, userorgs, orgs, nextOrg, content,
                   groups, requests, uploads, reorder>>

CreateCourse(user_id, org_id, public) ==
    /\ nextCourse <= MaxCourses
    /\ OrgExists(org_id)
    /\ LET decision == rbac_check(COURSE_X, user_id, "create", 0) IN
       IF decision # "200"
       THEN /\ last' = Call("create_course", user_id, "create", COURSE_X, 0, decision, 0)
            /\ UNCHANGED <<courses, nextCourse, authors>>
       ELSE /\ courses' = courses \cup
                    {[id |-> nextCourse, org_id |-> org_id, name |-> nextCourse,
                      description |-> NULL, public |-> public]}
            /\ nextCourse' = nextCourse + 1
            /\ authors' = Append(authors,
                    [resource_uuid |-> CourseUuid(nextCourse), user_id |-> user_id,
                     authorship |-> "CREATOR", authorship_status |-> "ACTIVE"])
            /\ last' = Call("create_course", user_id, "create", COURSE_X, 0, "200", 0)
    /\ UNCHANGED <<userorgs, orgs, nextOrg, content, groups, requests, uploads, reorder>>

\* for var, value in vars(update_object).items():
\*     if value is not None: setattr(row, var, value)
\* A field of an update object is Optional: {} is None, {v} is the value v.
RECURSIVE SetAttrs(_, _, _)
SetAttrs(row, update_object, fields) ==
    IF fields = {} THEN row
    ELSE LET var == CHOOSE v \in fields : TRUE IN
         SetAttrs(IF update_object[var] # {}
                  THEN [row EXCEPT ![var] = CHOOSE value \in update_object[var] : TRUE]
                  ELSE row,
                  update_object, fields \ {var})

\* Mutant: the description is reset to null before the fields are assigned.
UpdatedNullingUnset(row, update_object) ==
    SetAttrs(IF "description" \in DOMAIN row THEN [row EXCEPT !.description = NULL]
             ELSE row,
             update_object, DOMAIN update_object)

Updated(row, update_object) == SetAttrs(row, update_object, DOMAIN update_object)

\* The record of a call with the update object it carried.
WithObject(call, update_object) ==
    [op |-> call.op, user_id |-> call.user_id, action |-> call.action,
     element_uuid |-> call.element_uuid, target |-> call.target,
     outcome |-> call.outcome, isAuthor |-> call.isAuthor, isRole |-> call.isRole,
     object |-> update_object]

UpdateCourse(user_id, n, course_object) ==
    /\ IF ~CourseExists(n)
       THEN /\ last' = WithObject(Failed("update_course", user_id, "update",
                                         CourseUuid(n), 0, "404"), course_object)
            /\ UNCHANGED courses
       ELSE \E resource_author \in FirstAuthor(CourseUuid(n)) :
            LET decision == rbac_check(CourseUuid(n), user_id, "update", resource_author) IN
            /\ last' = WithObject(Call("update_course", user_id, "update", CourseUuid(n),
                                       0, decision, resource_author), course_object)
            /\ IF decision # "200"
               THEN UNCHANGED courses
               ELSE courses' = (courses \ {CourseRow(n)}) \cup
                                {Updated(CourseRow(n), course_object)}
    /\ UNCHANGED <<nextCourse, authors, userorgs, orgs, nextOrg, content,
                   groups, requests, uploads, reorder>>

DeleteCourse(user_id, n) ==
    /\ IF ~CourseExists(n)
       THEN /\ last' = Failed("delete_course", user_id, "delete", CourseUuid(n), 0, "404")
            /\ UNCHANGED courses
       ELSE \E resource_author \in FirstAuthor(CourseUuid(n)) :
            LET decision == rbac_check(CourseUuid(n), user_id, "delete", resource_author) IN
            /\ last' = Call("delete_course", user_id, "delete", CourseUuid(n), 0,
                            decision, resource_author)
            /\ IF decision # "200"
               THEN UNCHANGED courses
               ELSE courses' = courses \ {CourseRow(n)}
    /\ thumbnail_image' = ThumbnailsOf(courses')
    /\ UNCHANGED <<nextCourse, authors, userorgs, orgs, nextOrg, content, groups, requests, storage,
                   reorder>>

(***************************************************************************)
(* services/courses/thumbnails.py and the thumbnail upload of              *)
(* services/courses/courses.py.  The upload sink (upload_content) either   *)
(* stores the file or raises; a file name carries a fresh uuid4.           *)
(***************************************************************************)
MaxFiles == 3
FileNames == 1..MaxFiles
FreshFileNames == FileNames \ (storage \cup {t[2] : t \in thumbnail_image})

\* try: await upload_content(...)  except Exception: return {"message": ...}
\* The sink after the call; the caller gets no exception either way.
upload_thumbnail(name_in_disk, upload_content_raises) ==
    IF upload_content_raises THEN storage ELSE storage \cup {name_in_disk}

\* The record of a call with what became of its upload: "none" (no file sent),
\* "stored" or "failed".
WithUpload(call, upload) ==
    [op |-> call.op, user_id |-> call.user_id, action |-> call.action,
     element_uuid |-> call.element_uuid, target |-> call.target,
     outcome |-> call.outcome, isAuthor |-> call.isAuthor, isRole |-> call.isRole,
     upload |-> upload]

UploadOf(thumbnail_file, upload_content_raises) ==
    IF ~thumbnail_file THEN "none"
    ELSE IF upload_content_raises THEN "failed" ELSE "stored"

\* create_course called with a thumbnail file (lines 445-450); thumbnail_file
\* is TRUE when a file with a filename is sent.
CreateCourseWithThumbnail(user_id, org_id, public, thumbnail_file, name_in_disk, upload_content_raises) ==
    /\ nextCourse <= MaxCourses
    /\ OrgExists(org_id)
    /\ name_in_disk \in FreshFileNames
    /\ LET decision == rbac_check(COURSE_X, user_id, "create", 0) IN
       IF decision # "200"
       THEN /\ last' = WithUpload(Call("create_course", user_id, "create", COURSE_X, 0,
                                       decision, 0), "none")
            /\ UNCHANGED <<courses, nextCourse, authors, uploads>>
       ELSE /\ storage' = IF thumbnail_file
                          THEN upload_thumbnail(name_in_disk, upload_content_raises)
                          ELSE storage
            /\ thumbnail_image' = IF thumbnail_file
                                  THEN thumbnail_image \cup {<<nextCourse, name_in_disk>>}
                                  ELSE thumbnail_image
            /\ courses' = courses \cup
                    {[id |-> nextCourse, org_id |-> org_id, name |-> nextCourse,
                      description |-> NULL, public |-> public]}
            /\ nextCourse' = nextCourse + 1
            /\ authors' = Append(authors,
                    [resource_uuid |-> CourseUuid(nextCourse), user_id |-> user_id,
                     authorship |-> "CREATOR", authorship_status |-> "ACTIVE"])
            /\ last' = WithUpload(Call("create_course", user_id, "create", COURSE_X,
                                       IF thumbnail_file THEN name_in_disk ELSE 0,
                                       "200", 0),
                                  UploadOf(thumbnail_file, upload_content_raises))
    /\ UNCHANGED <<userorgs, orgs, nextOrg, content, groups, requests, reorder>>

UpdateCourseThumbnail(user_id, n, thumbnail_file, name_in_disk, upload_content_raises) ==
    /\ name_in_disk \in FreshFileNames
    /\ IF ~CourseExists(n)
       THEN /\ last' = WithUpload(Failed("update_course_thumbnail", user_id, "update",
                                         CourseUuid(n), 0, "404"), "none")
            /\ UNCHANGED uploads
       ELSE \E resource_author \in FirstAuthor(CourseUuid(n)) :
            LET decision == rbac_check(CourseUuid(n), user_id, "update", resource_author) IN
            IF decision # "200"
            THEN /\ last' = WithUpload(Call("update_course_thumbnail", user_id, "update",
                                            CourseUuid(n), 0, decision, resource_author),
                                       "none")
                 /\ UNCHANGED uploads
            ELSE IF ~thumbnail_file
            THEN /\ last' = WithUpload(Call("update_course_thumbnail", user_id, "update",
                                            CourseUuid(n), 0, "500", resource_author),
                                       "none")
                 /\ UNCHANGED uploads
            ELSE /\ storage' = upload_thumbnail(name_in_disk, upload_content_raises)
                 /\ thumbnail_image' =
                       {t \in thumbnail_image : t[1] # n} \cup {<<n, name_in_disk>>}
                 /\ last' = WithUpload(Call("update_course_thumbnail", user_id, "update",
                                            CourseUuid(n), name_in_disk, "200",
                                            resource_author),
                                       UploadOf(thumbnail_file, upload_content_raises))
    /\ UNCHANGED <<courses, nextCourse, authors, userorgs, orgs, nextOrg, content, groups, requests,
                   reorder>>

(***************************************************************************)
(* services/courses/contributors.py                                        *)
(***************************************************************************)
\* Mutant: the lookup of the caller's authorship finds nothing.
NoAuthorshipRows(element_uuid, user_id) == {}

\* The rows of select(ResourceAuthor).where(resource_uuid == uuid, user_id == user)
AuthorshipRows(element_uuid, user_id) ==
    {i \in AuthorRows(element_uuid) : authors[i].user_id = user_id}

ApplyCourseContributor(user_id, n) ==
    /\ IF authorization_verify_if_user_is_anon(user_id)
       THEN /\ last' = Failed("apply_course_contributor", user_id, "create",
                              CourseUuid(n), 0, "403_login")
            /\ UNCHANGED authors
       ELSE IF ~CourseExists(n)
       THEN /\ last' = Failed("apply_course_contributor", user_id, "create",
                              CourseUuid(n), 0, "404")
            /\ UNCHANGED authors
       ELSE IF AuthorshipRows(CourseUuid(n), user_id) # {}
       THEN /\ last' = Failed("apply_course_contributor", user_id, "create",
                              CourseUuid(n), 0, "400_exists")
            /\ UNCHANGED authors
       ELSE /\ authors' = Append(authors,
                    [resource_uuid |-> CourseUuid(n), user_id |-> user_id,
                     authorship |-> "CONTRIBUTOR", authorship_status |-> "PENDING"])
            /\ last' = Failed("apply_course_contributor", user_id, "create",
                              CourseUuid(n), 0, "200")
    /\ UNCHANGED <<courses, nextCourse, userorgs, orgs, nextOrg, content,
                   groups, requests, uploads, reorder>>

\* Mutant: the creator's record is updated like any other.
IsCreatorRecordSkipped(existing_authorship) == FALSE

\* "Don't allow changing the role of the creator"
IsCreatorRecord(existing_authorship) ==
    authors[existing_authorship].authorship = "CREATOR"

UpdateCourseContributor(user_id, n, contributor_user_id, authorship, authorship_status) ==
    /\ IF authorization_verify_if_user_is_anon(user_id)
       THEN /\ last' = Failed("update_course_contributor", user_id, "update",
                              CourseUuid(n), contributor_user_id, "403_login")
            /\ UNCHANGED authors
       ELSE \E resource_author \in FirstAuthor(CourseUuid(n)) :
            LET authorized == authorization_verify_based_on_roles_and_authorship(
                                  user_id, "update", CourseUuid(n), resource_author)
                Done(outcome) == Call("update_course_contributor", user_id, "update",
                                      CourseUuid(n), contributor_user_id, outcome,
                                      resource_author)
            IN
            IF authorized # "200"
            THEN last' = Done(authorized) /\ UNCHANGED authors
            ELSE IF ~CourseExists(n)
            THEN last' = Done("404") /\ UNCHANGED authors
            ELSE IF AuthorshipRows(CourseUuid(n), contributor_user_id) = {}
            THEN last' = Done("404_contributor") /\ UNCHANGED authors
            ELSE \E existing_authorship \in AuthorshipRows(CourseUuid(n), contributor_user_id) :
                 IF IsCreatorRecord(existing_authorship)
                 THEN last' = Done("400_creator") /\ UNCHANGED authors
                 ELSE /\ authors' = [authors EXCEPT ![existing_authorship] =
                            [@ EXCEPT !.authorship = authorship,
                                      !.authorship_status = authorship_status]]
                      /\ last' = Done("200")
    /\ UNCHANGED <<courses, nextCourse, userorgs, orgs, nextOrg, content,
                   groups, requests, uploads, reorder>>

(***************************************************************************)
(* The requests a client can make.                                        *)
(***************************************************************************)
CourseNumbers == 1..MaxCourses

Next ==
    \/ \E u \in Subjects, a \in Actions :
          \E e \in {CourseUuid(c.id) : c \in courses} \cup
                   (IF a = "create" THEN {COURSE_X} ELSE {}) :
             RbacCheck(u, a, e)
    \/ \E u \in Subjects, o \in OrgIds, p \in BOOLEAN : CreateCourse(u, o, p)
    \/ \E u \in Subjects, n \in CourseNumbers :
          \E course_object \in [name : {{n}}, description : {{}},
                                 public : {{}, {TRUE}, {FALSE}}] :
             UpdateCourse(u, n, course_object)
    \/ \E u \in Subjects, n \in CourseNumbers : DeleteCourse(u, n)
    \/ \E u \in Subjects, n \in CourseNumbers : ApplyCourseContributor(u, n)
    \/ \E u \in Subjects, n \in CourseNumbers, t \in Users,
          k \in Authorships, s \in AuthorshipStatuses :
          UpdateCourseContributor(u, n, t, k, s)

Spec == Init /\ [][Next]_vars

(***************************************************************************)
(* services/orgs/orgs.py                                                   *)
(***************************************************************************)
Slugs == 1..(NumOrgs + MaxNewOrgs)
OrgRow(org_id) == CHOOSE o \in orgs : o.id = org_id

\* Mutant: the slug lookup of the create and update operations finds nothing.
NoOrgWithSlug(slug) == {0}

\* What select(Organization).where(Organization.slug == slug).first() may
\* return: no row (0), or the id of any organization carrying the slug.
FirstOrgWithSlug(slug) ==
    IF {o \in orgs : {o.slug} = slug} = {} THEN {0}
    ELSE {o.id : o \in {o \in orgs : {o.slug} = slug}}

CreateOrg(user_id, slug) ==
    /\ nextOrg <= NumOrgs + MaxNewOrgs
    /\ IF FirstOrgWithSlug({slug}) # {0}
       THEN /\ last' = Failed("create_org", user_id, "create", OrgUuid(0), slug, "409_exists")
            /\ UNCHANGED <<orgs, nextOrg, userorgs>>
       ELSE IF user_id = ANON
       THEN /\ last' = Failed("create_org", user_id, "create", OrgUuid(0), slug, "409_login")
            /\ UNCHANGED <<orgs, nextOrg, userorgs>>
       ELSE /\ orgs' = orgs \cup {[id |-> nextOrg, slug |-> slug, name |-> nextOrg]}
            /\ nextOrg' = nextOrg + 1
            /\ userorgs' = userorgs \cup
                    {[user_id |-> user_id, org_id |-> nextOrg, role_id |-> 1]}
            /\ last' = Failed("create_org", user_id, "create", OrgUuid(0), slug, "200")
    /\ UNCHANGED <<courses, nextCourse, authors, content, groups, requests, uploads, reorder>>

\* The OrganizationConfig row it adds is not part of the model.
CreateOrgWithConfig(user_id, slug) ==
    /\ nextOrg <= NumOrgs + MaxNewOrgs
    /\ IF FirstOrgWithSlug({slug}) # {0}
       THEN /\ last' = Failed("create_org_with_config", user_id, "create", OrgUuid(0), slug, "409_exists")
            /\ UNCHANGED <<orgs, nextOrg, userorgs>>
       ELSE IF user_id = ANON
       THEN /\ last' = Failed("create_org_with_config", user_id, "create", OrgUuid(0), slug, "409_login")
            /\ UNCHANGED <<orgs, nextOrg, userorgs>>
       ELSE /\ orgs' = orgs \cup {[id |-> nextOrg, slug |-> slug, name |-> nextOrg]}
            /\ nextOrg' = nextOrg + 1
            /\ userorgs' = userorgs \cup
                    {[user_id |-> user_id, org_id |-> nextOrg, role_id |-> 1]}
            /\ last' = Failed("create_org_with_config", user_id, "create", OrgUuid(0), slug, "200")
    /\ UNCHANGED <<courses, nextCourse, authors, content, groups, requests, uploads, reorder>>

UpdateOrg(user_id, org_id, org_object) ==
    /\ IF ~OrgExists(org_id)
       THEN /\ last' = WithObject(Failed("update_org", user_id, "update",
                                         OrgUuid(org_id), 0, "404"), org_object)
            /\ UNCHANGED orgs
       ELSE LET decision == org_rbac_check(user_id, "update") IN
            IF decision # "200"
            THEN /\ last' = WithObject(Failed("update_org", user_id, "update",
                                              OrgUuid(org_id), 0, decision), org_object)
                 /\ UNCHANGED orgs
            ELSE \E slug_available \in FirstOrgWithSlug(org_object.slug) :
                 IF slug_available # 0 /\ slug_available # org_id
                 THEN /\ last' = WithObject(Failed("update_org", user_id, "update",
                                                   OrgUuid(org_id), 0, "409_exists"),
                                            org_object)
                      /\ UNCHANGED orgs
                 ELSE /\ orgs' = (orgs \ {OrgRow(org_id)}) \cup
                                 {Updated(OrgRow(org_id), org_object)}
                      /\ last' = WithObject(Failed("update_org", user_id, "update",
                                                   OrgUuid(org_id), 0, "200"),
                                            org_object)
    /\ UNCHANGED <<courses, nextCourse, authors, userorgs, nextOrg, content,
                   groups, requests, uploads, reorder>>

\* The Course rows of the organization go with it (ForeignKey ondelete CASCADE).
DeleteOrg(user_id, org_id) ==
    /\ IF ~OrgExists(org_id)
       THEN /\ last' = Failed("delete_org", user_id, "delete", OrgUuid(org_id), 0, "404")
            /\ UNCHANGED <<orgs, userorgs, courses>>
       ELSE LET decision == org_rbac_check(user_id, "delete") IN
            IF decision # "200"
            THEN /\ last' = Failed("delete_org", user_id, "delete", OrgUuid(org_id), 0,
                                   decision)
                 /\ UNCHANGED <<orgs, userorgs, courses>>
            ELSE /\ orgs' = orgs \ {OrgRow(org_id)}
                 /\ userorgs' = {uo \in userorgs : uo.org_id # org_id}
                 /\ courses' = {c \in courses : c.org_id # org_id}
                 /\ last' = Failed("delete_org", user_id, "delete", OrgUuid(org_id), 0,
                                   "200")
    /\ thumbnail_image' = ThumbnailsOf(courses')
    /\ UNCHANGED <<nextCourse, authors, nextOrg, content, groups, requests, storage, reorder>>

AllOrgIds == 1..(NumOrgs + MaxNewOrgs)

NextOrg ==
    \/ \E u \in Subjects, a \in Actions, o \in AllOrgIds : OrgRbacCheck(u, a, o)
    \/ \E u \in Subjects, g \in Slugs : CreateOrg(u, g)
    \/ \E u \in Subjects, g \in Slugs : CreateOrgWithConfig(u, g)
    \/ \E u \in Subjects, o \in AllOrgIds :
          \E org_object \in [name : {{}}, slug : {{}} \cup {{v} : v \in Slugs}] :
             UpdateOrg(u, o, org_object)
    \/ \E u \in Subjects, o \in AllOrgIds : DeleteOrg(u, o)

SpecOrg == Init /\ [][NextOrg]_vars

(***************************************************************************)
(* services/courses/chapters.py and services/courses/activities/          *)
(* activities.py: chapters, activities and their order links.             *)
(***************************************************************************)
CHAPTER_X == <<"chapter", 0>>

ContentCall(op, user_id, course_id, chapters_order, outcome) ==
    [op |-> op, user_id |-> user_id, course_id |-> course_id,
     chapters_order |-> chapters_order, outcome |-> outcome]

ChapterExists(chapter_id) == \E ch \in chapters : ch.id = chapter_id
ChapterRow(chapter_id) == CHOOSE ch \in chapters : ch.id = chapter_id

Max(S) == CHOOSE x \in S : \A y \in S : y <= x

\* course_chapters[-1].order if course_chapters else 0, the rows ordered by order
LastChapterOrder(course_id) ==
    LET orders == {cc.order : cc \in {cc \in BagToSet(course_chapters) :
                                          cc.course_id = course_id}}
    IN IF orders = {} THEN 0 ELSE Max(orders)

\* Mutant: the chapter row is committed before the authorization check runs.
CreateChapterCommitsFirst(user_id, course_id) ==
    /\ nextChapter <= MaxChapters
    /\ IF ~CourseExists(course_id)
       THEN /\ last' = ContentCall("create_chapter", user_id, course_id, <<>>, "500")
            /\ UNCHANGED <<chapters, nextChapter>>
       ELSE /\ chapters' = chapters \cup
                  {[id |-> nextChapter, course_id |-> course_id,
                    org_id |-> CourseRow(course_id).org_id,
                    name |-> nextChapter, description |-> NULL]}
            /\ nextChapter' = nextChapter + 1
            /\ last' = ContentCall("create_chapter", user_id, course_id, <<>>,
                                   rbac_check(CHAPTER_X, user_id, "create", 0))
    /\ UNCHANGED <<courses, nextCourse, authors, userorgs, orgs, nextOrg,
                   groups, requests, uploads, reorder,
                   course_chapters, activities, nextActivity, chapter_activities>>

CreateChapter(user_id, course_id) ==
    /\ nextChapter <= MaxChapters
    /\ IF ~CourseExists(course_id)
       THEN /\ last' = ContentCall("create_chapter", user_id, course_id, <<>>, "500")
            /\ UNCHANGED <<chapters, nextChapter, course_chapters>>
       ELSE LET decision == rbac_check(CHAPTER_X, user_id, "create", 0)
                to_be_used_order == LastChapterOrder(course_id) + 1
            IN
            /\ last' = ContentCall("create_chapter", user_id, course_id, <<>>, decision)
            /\ IF decision # "200"
               THEN UNCHANGED <<chapters, nextChapter, course_chapters>>
               ELSE /\ chapters' = chapters \cup
                          {[id |-> nextChapter, course_id |-> course_id,
                            org_id |-> CourseRow(course_id).org_id,
                            name |-> nextChapter, description |-> NULL]}
                    /\ nextChapter' = nextChapter + 1
                    /\ course_chapters' =
                          IF \E cc \in BagToSet(course_chapters) :
                                /\ cc.chapter_id = nextChapter
                                /\ cc.course_id = course_id
                                /\ cc.order = to_be_used_order
                          THEN course_chapters
                          ELSE course_chapters (+) SetToBag(
                                  {[chapter_id |-> nextChapter, course_id |-> course_id,
                                    org_id |-> CourseRow(course_id).org_id,
                                    order |-> to_be_used_order]})
    /\ UNCHANGED <<courses, nextCourse, authors, userorgs, orgs, nextOrg,
                   groups, requests, uploads, reorder,
                   activities, nextActivity, chapter_activities>>

\* chapter_activities[-1].order if chapter_activities else 0
LastActivityOrder(chapter_id) ==
    LET orders == {ca.order : ca \in {ca \in BagToSet(chapter_activities) :
                                          ca.chapter_id = chapter_id}}
    IN IF orders = {} THEN 0 ELSE Max(orders)

CreateActivity(user_id, chapter_id) ==
    /\ nextActivity <= MaxActivities
    /\ IF ~ChapterExists(chapter_id)
       THEN /\ last' = ContentCall("create_activity", user_id, 0, <<>>, "404")
            /\ UNCHANGED <<activities, nextActivity, chapter_activities>>
       ELSE IF ~CourseExists(ChapterRow(chapter_id).course_id)
       THEN /\ last' = ContentCall("create_activity", user_id,
                                   ChapterRow(chapter_id).course_id, <<>>, "404")
            /\ UNCHANGED <<activities, nextActivity, chapter_activities>>
       ELSE LET chapter == ChapterRow(chapter_id)
                decision == rbac_check(CourseUuid(chapter.course_id), user_id, "create", 0)
            IN
            /\ last' = ContentCall("create_activity", user_id, chapter.course_id, <<>>,
                                   decision)
            /\ IF decision # "200"
               THEN UNCHANGED <<activities, nextActivity, chapter_activities>>
               ELSE /\ activities' = activities \cup
                          {[id |-> nextActivity, course_id |-> chapter.course_id,
                            org_id |-> chapter.org_id,
                            name |-> nextActivity, content |-> NULL]}
                    /\ nextActivity' = nextActivity + 1
                    /\ chapter_activities' = chapter_activities (+) SetToBag(
                          {[chapter_id |-> chapter_id, activity_id |-> nextActivity,
                            course_id |-> chapter.course_id, org_id |-> chapter.org_id,
                            order |-> LastActivityOrder(chapter_id) + 1]})
    /\ UNCHANGED <<courses, nextCourse, authors, userorgs, orgs, nextOrg,
                   groups, requests, uploads, reorder,
                   chapters, nextChapter, course_chapters>>

ChapterUuid(n) == <<"chapter", n>>

UpdateChapter(user_id, chapter_id, chapter_object) ==
    /\ IF ~ChapterExists(chapter_id)
       THEN /\ last' = WithObject(Failed("update_chapter", user_id, "update",
                                         ChapterUuid(chapter_id), 0, "409"),
                                  chapter_object)
            /\ UNCHANGED chapters
       ELSE \E resource_author \in FirstAuthor(ChapterUuid(chapter_id)) :
            LET decision == rbac_check(ChapterUuid(chapter_id), user_id, "update",
                                       resource_author)
            IN
            /\ last' = WithObject(Call("update_chapter", user_id, "update",
                                       ChapterUuid(chapter_id), 0, decision,
                                       resource_author), chapter_object)
            /\ IF decision # "200"
               THEN UNCHANGED chapters
               ELSE chapters' = (chapters \ {ChapterRow(chapter_id)}) \cup
                                 {Updated(ChapterRow(chapter_id), chapter_object)}
    /\ UNCHANGED <<courses, nextCourse, authors, userorgs, orgs, nextOrg,
                   groups, requests, uploads, reorder,
                   nextChapter, course_chapters, activities, nextActivity,
                   chapter_activities>>

ActivityUuid(n) == <<"activity", n>>
ActivityExists(activity_id) == \E a \in activities : a.id = activity_id
ActivityRow(activity_id) == CHOOSE a \in activities : a.id = activity_id

UpdateActivity(user_id, activity_id, activity_object) ==
    /\ IF ~ActivityExists(activity_id)
       THEN /\ last' = WithObject(Failed("update_activity", user_id, "update",
                                         ActivityUuid(activity_id), activity_id, "404"),
                                  activity_object)
            /\ UNCHANGED activities
       ELSE IF ~CourseExists(ActivityRow(activity_id).course_id)
       THEN /\ last' = WithObject(Failed("update_activity", user_id, "update",
                                         ActivityUuid(activity_id), activity_id,
                                         "404_course"),
                                  activity_object)
            /\ UNCHANGED activities
       ELSE LET course_uuid == CourseUuid(ActivityRow(activity_id).course_id) IN
            \E resource_author \in FirstAuthor(course_uuid) :
            LET decision == rbac_check(course_uuid, user_id, "update", resource_author) IN
            /\ last' = WithObject(Call("update_activity", user_id, "update", course_uuid,
                                       activity_id, decision, resource_author),
                                  activity_object)
            /\ IF decision # "200"
               THEN UNCHANGED activities
               ELSE activities' = (activities \ {ActivityRow(activity_id)}) \cup
                                   {Updated(ActivityRow(activity_id), activity_object)}
    /\ UNCHANGED <<courses, nextCourse, authors, userorgs, orgs, nextOrg,
                   groups, requests, uploads, reorder,
                   chapters, nextChapter, course_chapters, nextActivity,
                   chapter_activities>>

(***************************************************************************)
(* reorder_chapters_and_activities.  chapters_order is the sequence        *)
(* chapter_order_by_ids of records [chapter_id, activities_order_by_ids]. *)
(***************************************************************************)
\* select(CourseChapter).where(course_id == course.id, org_id == course.org_id)
existing_course_chapters(course) ==
    {cc \in BagToSet(course_chapters) :
        cc.course_id = course.id /\ cc.org_id = course.org_id}

\* {cc.chapter_id: cc for cc in existing_course_chapters}: when several rows
\* carry one chapter id, the row the dictionary keeps is the last the query
\* returned, any of them.
existing_chapter_maps(course) ==
    LET ids == {cc.chapter_id : cc \in existing_course_chapters(course)}
    IN {m \in [ids -> existing_course_chapters(course)] :
          \A c \in ids : m[c].chapter_id = c}

\* The last position of the sequence that holds k.
LastIndexOf(keys, k) ==
    Max({p \in DOMAIN keys : keys[p] = k})

\* The bag of the entries of a sequence.
RECURSIVE SeqToBag(_)
SeqToBag(rows) ==
    IF rows = <<>> THEN EmptyBag
    ELSE SetToBag({Head(rows)}) (+) SeqToBag(Tail(rows))

\* The bag without any copy of the rows of the set.
WithoutRows(table, rows) ==
    [r \in BagToSet(table) \ rows |-> table[r]]

ReorderChapters(course, chapters_order, existing_chapter_map) ==
    LET ids == [p \in DOMAIN chapters_order |-> chapters_order[p].chapter_id]
        chapter_ids_to_keep == {ids[p] : p \in DOMAIN ids}
        matched == DOMAIN existing_chapter_map \cap chapter_ids_to_keep
        \* course_chapter.order = index, on the row the map holds
        before == SetToBag({existing_chapter_map[c] : c \in matched})
        after == SetToBag({[existing_chapter_map[c] EXCEPT
                              !.order = LastIndexOf(ids, c) - 1] : c \in matched})
        IsNew(cc) == cc.chapter_id \notin DOMAIN existing_chapter_map
        created ==
            SeqToBag(SelectSeq([p \in DOMAIN chapters_order |->
                         [chapter_id |-> ids[p], course_id |-> course.id,
                          org_id |-> course.org_id, order |-> p - 1]], IsNew))
        removed == {cc \in existing_course_chapters(course) :
                       cc.chapter_id \notin chapter_ids_to_keep}
    IN WithoutRows((course_chapters (-) before) (+) after, removed) (+) created

\* select(ChapterActivity).where(course_id == course.id, org_id == course.org_id)
existing_chapter_activities(course) ==
    {ca \in BagToSet(chapter_activities) :
        ca.course_id = course.id /\ ca.org_id = course.org_id}

ActivityKey(ca) == <<ca.chapter_id, ca.activity_id>>

existing_activity_maps(course) ==
    LET keys == {ActivityKey(ca) : ca \in existing_chapter_activities(course)}
    IN {m \in [keys -> existing_chapter_activities(course)] :
          \A k \in keys : ActivityKey(m[k]) = k}

\* The (chapter, activity, index) triples in the order the two loops visit them.
RECURSIVE ActivityVisits(_)
ActivityVisits(chapters_order) ==
    IF chapters_order = <<>> THEN <<>>
    ELSE [j \in DOMAIN Head(chapters_order).activities_order_by_ids |->
             [chapter_id |-> Head(chapters_order).chapter_id,
              activity_id |-> Head(chapters_order).activities_order_by_ids[j],
              index |-> j - 1]]
         \o ActivityVisits(Tail(chapters_order))

ReorderActivities(course, chapters_order, existing_activity_map) ==
    LET visits == ActivityVisits(chapters_order)
        keys == [p \in DOMAIN visits |-> ActivityKey(visits[p])]
        activities_to_keep == {keys[p] : p \in DOMAIN keys}
        matched == DOMAIN existing_activity_map \cap activities_to_keep
        before == SetToBag({existing_activity_map[k] : k \in matched})
        after == SetToBag({[existing_activity_map[k] EXCEPT
                              !.order = visits[LastIndexOf(keys, k)].index] :
                           k \in matched})
        IsNew(ca) == ActivityKey(ca) \notin DOMAIN existing_activity_map
        created ==
            SeqToBag(SelectSeq([p \in DOMAIN visits |->
                         [chapter_id |-> visits[p].chapter_id,
                          activity_id |-> visits[p].activity_id,
                          course_id |-> course.id, org_id |-> course.org_id,
                          order |-> visits[p].index]], IsNew))
        removed == {ca \in existing_chapter_activities(course) :
                       ActivityKey(ca) \notin activities_to_keep}
    IN WithoutRows((chapter_activities (-) before) (+) after, removed) (+) created

ReorderChaptersAndActivities(user_id, n, chapters_order) ==
    /\ IF ~CourseExists(n)
       THEN /\ last' = ContentCall("reorder_chapters_and_activities", user_id, n,
                                   <<>>, "409")
            /\ UNCHANGED <<course_chapters, chapter_activities>>
       ELSE \E resource_author \in FirstAuthor(CourseUuid(n)) :
            LET decision == rbac_check(CourseUuid(n), user_id, "update", resource_author) IN
            /\ last' = ContentCall("reorder_chapters_and_activities", user_id, n,
                                   IF decision = "200" THEN chapters_order ELSE <<>>,
                                   decision)
            /\ IF decision # "200"
               THEN UNCHANGED <<course_chapters, chapter_activities>>
               ELSE /\ \E m \in existing_chapter_maps(CourseRow(n)) :
                          course_chapters' = ReorderChapters(CourseRow(n), chapters_order, m)
                    /\ \E m \in existing_activity_maps(CourseRow(n)) :
                          chapter_activities' =
                              ReorderActivities(CourseRow(n), chapters_order, m)
    /\ UNCHANGED <<courses, nextCourse, authors, userorgs, orgs, nextOrg,
                   groups, requests, uploads, reorder,
                   chapters, nextChapter, activities, nextActivity>>

(***************************************************************************)
(* delete_chapter and delete_activity                                      *)
(***************************************************************************)
\* The CourseChapter rows that go with a deleted chapter.  The table model is
\* not in the sources; the specification has links deleted with their resource.
CascadedCourseChapters(chapter_id) ==
    {cc \in BagToSet(course_chapters) : cc.chapter_id = chapter_id}

DeleteChapter(user_id, chapter_id) ==
    /\ IF ~ChapterExists(chapter_id)
       THEN /\ last' = ContentCall("delete_chapter", user_id, 0, <<>>, "409")
            /\ UNCHANGED <<chapters, course_chapters, chapter_activities>>
       ELSE \E resource_author \in FirstAuthor(ChapterUuid(chapter_id)) :
            LET chapter == ChapterRow(chapter_id)
                decision == rbac_check(ChapterUuid(chapter_id), user_id, "delete",
                                       resource_author)
            IN
            /\ last' = ContentCall("delete_chapter", user_id, chapter.course_id, <<>>,
                                   decision)
            /\ IF decision # "200"
               THEN UNCHANGED <<chapters, course_chapters, chapter_activities>>
               ELSE /\ chapter_activities' = WithoutRows(chapter_activities,
                          {ca \in BagToSet(chapter_activities) :
                              ca.chapter_id = chapter_id})
                    /\ chapters' = chapters \ {chapter}
                    /\ course_chapters' = WithoutRows(course_chapters,
                          CascadedCourseChapters(chapter_id))
    /\ UNCHANGED <<courses, nextCourse, authors, userorgs, orgs, nextOrg,
                   groups, requests, uploads, reorder,
                   nextChapter, activities, nextActivity>>

DeleteActivity(user_id, activity_id) ==
    /\ IF ~ActivityExists(activity_id)
       THEN /\ last' = ContentCall("delete_activity", user_id, 0, <<>>, "404")
            /\ UNCHANGED <<activities, chapter_activities>>
       ELSE IF ~CourseExists(ActivityRow(activity_id).course_id)
       THEN /\ last' = ContentCall("delete_activity", user_id,
                                   ActivityRow(activity_id).course_id, <<>>, "404_course")
            /\ UNCHANGED <<activities, chapter_activities>>
       ELSE LET activity == ActivityRow(activity_id)
                course_uuid == CourseUuid(activity.course_id)
                links == {ca \in BagToSet(chapter_activities) :
                             ca.activity_id = activity_id}
            IN
            \E resource_author \in FirstAuthor(course_uuid) :
            LET decision == rbac_check(course_uuid, user_id, "delete", resource_author) IN
            IF decision # "200"
            THEN /\ last' = ContentCall("delete_activity", user_id, activity.course_id,
                                        <<>>, decision)
                 /\ UNCHANGED <<activities, chapter_activities>>
            ELSE IF links = {}
            THEN /\ last' = ContentCall("delete_activity", user_id, activity.course_id,
                                        <<>>, "404_link")
                 /\ UNCHANGED <<activities, chapter_activities>>
            ELSE \E activity_chapter \in links :
                 /\ chapter_activities' = chapter_activities (-)
                                              SetToBag({activity_chapter})
                 /\ activities' = activities \ {activity}
                 /\ last' = ContentCall("delete_activity", user_id, activity.course_id,
                                        <<>>, "200")
    /\ UNCHANGED <<courses, nextCourse, authors, userorgs, orgs, nextOrg,
                   groups, requests, uploads, reorder,
                   chapters, nextChapter, course_chapters, nextActivity>>

\* The courses of organization 1 that user 1 created, with no content yet,
\* and the activities the reorder requests are explored with.
ContentCourses == 1
ContentActivities == 1

InitContent ==
    /\ courses = {[id |-> n, org_id |-> 1, name |-> n, description |-> NULL,
                    public |-> FALSE] : n \in 1..ContentCourses}
    /\ nextCourse = ContentCourses + 1
    /\ authors = [n \in 1..ContentCourses |->
                     [resource_uuid |-> CourseUuid(n), user_id |-> 1,
                      authorship |-> "CREATOR", authorship_status |-> "ACTIVE"]]
    /\ orgs = {[id |-> o, slug |-> o, name |-> o] : o \in OrgIds}
    /\ nextOrg = NumOrgs + 1
    /\ userorgs = {}
    /\ chapters = {}
    /\ nextChapter = 1
    /\ course_chapters = EmptyBag
    /\ activities = {}
    /\ nextActivity = 1
    /\ chapter_activities = EmptyBag
    /\ usergroup_resources = {}
    /\ usergroup_users = {}
    /\ thumbnail_image = {}
    /\ storage = {}
    /\ requests = [r \in RequestIds |-> IDLE]
    /\ reorder = IDLE
    /\ last = ContentCall("init", 0, 0, <<>>, "200")

SeqsUpTo(S, n) == UNION {[1..k -> S] : k \in 0..n}

\* The orders a client can submit: chapters and activities that exist.
ChapterOrders ==
    SeqsUpTo([chapter_id : {ch.id : ch \in chapters},
              activities_order_by_ids : SeqsUpTo({a.id : a \in activities}, MaxLen)],
             MaxLen)

NextContent ==
    \/ \E u \in Subjects, n \in 1..ContentCourses : CreateChapter(u, n)
    \/ \E u \in Subjects, ch \in 1..MaxChapters :
          nextActivity <= ContentActivities /\ CreateActivity(u, ch)
    \/ \E u \in Subjects, n \in 1..ContentCourses, o \in ChapterOrders :
          ReorderChaptersAndActivities(u, n, o)

SpecContent == InitContent /\ [][NextContent]_vars

(***************************************************************************)
(* reorder_chapters_and_activities commit by commit.  The variable reorder *)
(* holds the request being processed: the loop it is in (pc), the position *)
(* in the submitted list (index), the lookup map built before the loop,    *)
(* and the two link tables as they were when the request started (before). *)
(* Every step ends with a db_session.commit(); what the tables hold        *)
(* between two steps is what any other request reads.  One request is      *)
(* followed from its start to its return.                                  *)
(***************************************************************************)
InFlight == reorder.pc \in {"chapters", "activities"}

ReorderBegin(user_id, n, chapters_order) ==
    /\ reorder = IDLE
    /\ IF ~CourseExists(n)
       THEN /\ last' = ContentCall("reorder_chapters_and_activities", user_id, n,
                                   <<>>, "409")
            /\ reorder' = IDLE
       ELSE \E resource_author \in FirstAuthor(CourseUuid(n)) :
            LET decision == rbac_check(CourseUuid(n), user_id, "update", resource_author) IN
            IF decision # "200"
            THEN /\ last' = ContentCall("reorder_chapters_and_activities", user_id, n,
                                        <<>>, decision)
                 /\ reorder' = IDLE
            ELSE /\ \E m \in existing_chapter_maps(CourseRow(n)) :
                       reorder' = [pc |-> "chapters", user_id |-> user_id,
                                   course_id |-> n, chapters_order |-> chapters_order,
                                   index |-> 1, map |-> m,
                                   before |-> <<course_chapters, chapter_activities>>]
                 /\ UNCHANGED last
    /\ UNCHANGED <<courses, nextCourse, authors, userorgs, orgs, nextOrg, groups, requests, uploads,
                   content>>

\* The request ends with an error raised by a commit: what the commit was to
\* write is rolled back, what earlier commits wrote stays.
ReorderRaise ==
    /\ reorder' = [pc |-> "failed", before |-> reorder.before]
    /\ last' = ContentCall("reorder_chapters_and_activities", reorder.user_id,
                           reorder.course_id, reorder.chapters_order, "500")
    /\ UNCHANGED <<course_chapters, chapter_activities>>

\* One iteration of the loop over the submitted chapters, with its commit.  A
\* link to a chapter that does not exist is inserted or refused by the
\* database, depending on the constraints of the CourseChapter table.
ReorderChapterEntry ==
    /\ reorder.pc = "chapters"
    /\ reorder.index <= Len(reorder.chapters_order)
    /\ LET chapter_id == reorder.chapters_order[reorder.index].chapter_id
           course == CourseRow(reorder.course_id)
       IN
       IF chapter_id \in DOMAIN reorder.map
       THEN LET course_chapter == [reorder.map[chapter_id] EXCEPT
                                     !.order = reorder.index - 1]
            IN
            /\ course_chapters' = (course_chapters (-)
                                      SetToBag({reorder.map[chapter_id]})) (+)
                                   SetToBag({course_chapter})
            /\ reorder' = [reorder EXCEPT !.index = @ + 1,
                                          !.map[chapter_id] = course_chapter]
            /\ UNCHANGED <<chapter_activities, last>>
       ELSE \/ /\ course_chapters' = course_chapters (+) SetToBag(
                      {[chapter_id |-> chapter_id, course_id |-> course.id,
                        org_id |-> course.org_id, order |-> reorder.index - 1]})
               /\ reorder' = [reorder EXCEPT !.index = @ + 1]
               /\ UNCHANGED <<chapter_activities, last>>
            \/ /\ ~ChapterExists(chapter_id)
               /\ ReorderRaise
    /\ UNCHANGED <<courses, nextCourse, authors, userorgs, orgs, nextOrg, groups, requests, uploads,
                   chapters, nextChapter, activities, nextActivity>>

\* The links of the chapters left out are deleted and committed; the lookup
\* map of the activity links is built.
ReorderChapterDeletes ==
    /\ reorder.pc = "chapters"
    /\ reorder.index > Len(reorder.chapters_order)
    /\ LET course == CourseRow(reorder.course_id)
           chapter_ids_to_keep == {reorder.chapters_order[p].chapter_id :
                                      p \in DOMAIN reorder.chapters_order}
       IN
       /\ course_chapters' = WithoutRows(course_chapters,
             {cc \in existing_course_chapters(course) :
                 cc.chapter_id \notin chapter_ids_to_keep})
       /\ \E m \in existing_activity_maps(course) :
             reorder' = [reorder EXCEPT !.pc = "activities", !.index = 1, !.map = m]
    /\ UNCHANGED <<courses, nextCourse, authors, userorgs, orgs, nextOrg, groups, requests, uploads,
                   chapters, nextChapter, activities, nextActivity, chapter_activities,
                   last>>

\* One iteration of the loops over the submitted activities, with its commit.
ReorderActivityEntry ==
    /\ reorder.pc = "activities"
    /\ reorder.index <= Len(ActivityVisits(reorder.chapters_order))
    /\ LET visit == ActivityVisits(reorder.chapters_order)[reorder.index]
           activity_key == ActivityKey(visit)
           course == CourseRow(reorder.course_id)
       IN
       IF activity_key \in DOMAIN reorder.map
       THEN LET chapter_activity == [reorder.map[activity_key] EXCEPT
                                       !.order = visit.index]
            IN
            /\ chapter_activities' = (chapter_activities (-)
                                         SetToBag({reorder.map[activity_key]})) (+)
                                      SetToBag({chapter_activity})
            /\ reorder' = [reorder EXCEPT !.index = @ + 1,
                                          !.map[activity_key] = chapter_activity]
            /\ UNCHANGED <<course_chapters, last>>
       ELSE \/ /\ chapter_activities' = chapter_activities (+) SetToBag(
                      {[chapter_id |-> visit.chapter_id,
                        activity_id |-> visit.activity_id,
                        course_id |-> course.id, org_id |-> course.org_id,
                        order |-> visit.index]})
               /\ reorder' = [reorder EXCEPT !.index = @ + 1]
               /\ UNCHANGED <<course_chapters, last>>
            \/ /\ ~ChapterExists(visit.chapter_id)
               /\ ReorderRaise
    /\ UNCHANGED <<courses, nextCourse, authors, userorgs, orgs, nextOrg, groups, requests, uploads,
                   chapters, nextChapter, activities, nextActivity>>

\* The links of the activities left out are deleted and committed, and the
\* request returns.
ReorderActivityDeletes ==
    /\ reorder.pc = "activities"
    /\ reorder.index > Len(ActivityVisits(reorder.chapters_order))
    /\ LET course == CourseRow(reorder.course_id)
           visits == ActivityVisits(reorder.chapters_order)
           activities_to_keep == {ActivityKey(visits[p]) : p \in DOMAIN visits}
       IN
       chapter_activities' = WithoutRows(chapter_activities,
           {ca \in existing_chapter_activities(course) :
               ActivityKey(ca) \notin activities_to_keep})
    /\ reorder' = [pc |-> "returned"]
    /\ last' = ContentCall("reorder_chapters_and_activities", reorder.user_id,
                           reorder.course_id, reorder.chapters_order, "200")
    /\ UNCHANGED <<courses, nextCourse, authors, userorgs, orgs, nextOrg, groups, requests, uploads,
                   chapters, nextChapter, activities, nextActivity, course_chapters>>

\* A course of user 1 with NumSiblings chapters, created in turn, the first
\* holding one activity.
NumSiblings == 2

InitReorder ==
    /\ courses = {[id |-> 1, org_id |-> 1, name |-> 1, description |-> NULL,
                    public |-> FALSE]}
    /\ nextCourse = 2
    /\ authors = <<[resource_uuid |-> CourseUuid(1), user_id |-> 1,
                     authorship |-> "CREATOR", authorship_status |-> "ACTIVE"]>>
    /\ orgs = {[id |-> o, slug |-> o, name |-> o] : o \in OrgIds}
    /\ nextOrg = NumOrgs + 1
    /\ userorgs = {}
    /\ chapters = {[id |-> ch, course_id |-> 1, org_id |-> 1, name |-> ch,
                     description |-> NULL] : ch \in 1..NumSiblings}
    /\ nextChapter = NumSiblings + 1
    /\ course_chapters = SetToBag({[chapter_id |-> ch, course_id |-> 1, org_id |-> 1,
                                     order |-> ch] : ch \in 1..NumSiblings})
    /\ activities = {[id |-> 1, course_id |-> 1, org_id |-> 1, name |-> 1,
                       content |-> NULL]}
    /\ nextActivity = 2
    /\ chapter_activities = SetToBag({[chapter_id |-> 1, activity_id |-> 1,
                                        course_id |-> 1, org_id |-> 1, order |-> 1]})
    /\ usergroup_resources = {}
    /\ usergroup_users = {}
    /\ thumbnail_image = {}
    /\ storage = {}
    /\ requests = [r \in RequestIds |-> IDLE]
    /\ reorder = IDLE
    /\ last = ContentCall("init", 0, 0, <<>>, "200")

\* The orders a client can submit: chapters that exist and one that does not.
SubmittedOrders ==
    SeqsUpTo([chapter_id : 1..(NumSiblings + 1),
              activities_order_by_ids : SeqsUpTo({a.id : a \in activities}, MaxLen)],
             MaxLen)

NextReorder ==
    \/ \E u \in Subjects, n \in 1..2, o \in SubmittedOrders : ReorderBegin(u, n, o)
    \/ ReorderChapterEntry
    \/ ReorderChapterDeletes
    \/ ReorderActivityEntry
    \/ ReorderActivityDeletes

SpecReorder == InitReorder /\ [][NextReorder]_vars

(***************************************************************************)
(* Creating, deleting and reordering the chapters and activities of one    *)
(* course whose creator, user 1, is an administrator of its organization.  *)
(* The orders submitted list the linked chapters, each with its linked     *)
(* activities, every id once.                                              *)
(***************************************************************************)
Orderings(S) ==
    {f \in [1..Cardinality(S) -> S] : \A p, q \in DOMAIN f : f[p] = f[q] => p = q}

LinkedChapters(course_id) ==
    {cc.chapter_id : cc \in {cc \in BagToSet(course_chapters) :
                                  cc.course_id = course_id}}

LinkedActivities(chapter_id) ==
    {ca.activity_id : ca \in {ca \in BagToSet(chapter_activities) :
                                   ca.chapter_id = chapter_id}}

CurrentOrders(course_id) ==
    LET linked == LinkedChapters(course_id)
        choices == {g \in [linked -> UNION {Orderings(LinkedActivities(c)) :
                                                c \in linked}] :
                       \A c \in linked : g[c] \in Orderings(LinkedActivities(c))}
    IN {[p \in DOMAIN f |-> [chapter_id |-> f[p], activities_order_by_ids |-> g[f[p]]]] :
           f \in Orderings(linked), g \in choices}

InitOrder ==
    /\ courses = {[id |-> 1, org_id |-> 1, name |-> 1, description |-> NULL,
                    public |-> FALSE]}
    /\ nextCourse = 2
    /\ authors = <<[resource_uuid |-> CourseUuid(1), user_id |-> 1,
                     authorship |-> "CREATOR", authorship_status |-> "ACTIVE"]>>
    /\ orgs = {[id |-> o, slug |-> o, name |-> o] : o \in OrgIds}
    /\ nextOrg = NumOrgs + 1
    /\ userorgs = {[user_id |-> 1, org_id |-> 1, role_id |-> 1]}
    /\ chapters = {}
    /\ nextChapter = 1
    /\ course_chapters = EmptyBag
    /\ activities = {}
    /\ nextActivity = 1
    /\ chapter_activities = EmptyBag
    /\ usergroup_resources = {}
    /\ usergroup_users = {}
    /\ thumbnail_image = {}
    /\ storage = {}
    /\ requests = [r \in RequestIds |-> IDLE]
    /\ reorder = IDLE
    /\ last = ContentCall("init", 0, 0, <<>>, "200")

NextOrder ==
    \/ \E u \in Subjects : CreateChapter(u, 1)
    \/ \E u \in Subjects, ch \in 1..MaxChapters : CreateActivity(u, ch)
    \/ \E u \in Subjects, ch \in 1..MaxChapters : DeleteChapter(u, ch)
    \/ \E u \in Subjects, a \in 1..MaxActivities : DeleteActivity(u, a)
    \/ \E u \in Subjects, o \in CurrentOrders(1) : ReorderChaptersAndActivities(u, 1, o)

SpecOrder == InitOrder /\ [][NextOrder]_vars

(***************************************************************************)
(* services/courses/courses.py: get_courses_orgslug and search_courses.   *)
(***************************************************************************)
\* What an outer join yields for the rows it matched: each row as {row}, or
\* the all-NULL row {} when it matched none.
OuterJoin(rows) == IF rows = {} THEN {{}} ELSE {{r} : r \in rows}

\* select(Course).join(Organization).where(Organization.slug == org_slug)
CoursesOfSlug(org_slug) ==
    {c \in courses : \E o \in orgs : o.id = c.org_id /\ o.slug = org_slug}

\* Mutant: the join on UserGroupUser forgets the membership's group.
JoinedUserGroupUsersOfAnyGroup(usergroup_resource, user_id) ==
    OuterJoin({ugu \in usergroup_users :
                  /\ usergroup_resource # {}
                  /\ ugu.user_id = user_id})

\* .outerjoin(UserGroupUser, and_(usergroup_id == UserGroupResource.usergroup_id,
\*                                user_id == current_user.id))
JoinedUserGroupUsers(usergroup_resource, user_id) ==
    OuterJoin({ugu \in usergroup_users :
                  /\ \E ugr \in usergroup_resource :
                        ugu.usergroup_id = ugr.usergroup_id
                  /\ ugu.user_id = user_id})

\* The rows the three outer joins produce for one course.
JoinedRows(course, user_id) ==
    UNION {{[usergroup_resource |-> ugr, usergroup_user |-> ugu,
             resource_author |-> ra] :
               ugu \in JoinedUserGroupUsers(ugr, user_id),
               ra \in OuterJoin({authors[i] : i \in AuthorRows(CourseUuid(course.id))})} :
           ugr \in OuterJoin({r \in usergroup_resources :
                                r.resource_uuid = CourseUuid(course.id)})}

\* The WHERE clause of the listing, for AnonymousUser and for a PublicUser.
CourseListed(course, user_id) ==
    IF user_id = ANON
    THEN course.public
    ELSE \E row \in JoinedRows(course, user_id) :
            \/ course.public
            \/ row.usergroup_resource = {}
            \/ \E ugu \in row.usergroup_user : ugu.user_id = user_id
            \/ \E ra \in row.resource_author : ra.user_id = user_id

Min(S) == CHOOSE x \in S : \A y \in S : x <= y

\* query.offset(offset).limit(limit).distinct(): the rows have no ORDER BY, so
\* a page is any selection of the right size.
Pages(rows, page, limit) ==
    LET offset == (page - 1) * limit
        size == Min({limit, Max({0, Cardinality(rows) - offset})})
    IN {selected \in SUBSET rows : Cardinality(selected) = size}

ListCall(op, user_id, org_slug, rows) ==
    [op |-> op, user_id |-> user_id, org_slug |-> org_slug,
     result |-> {c.id : c \in rows}, outcome |-> "200"]

GetCoursesOrgslug(user_id, org_slug, page, limit) ==
    /\ \E rows \in Pages({c \in CoursesOfSlug(org_slug) : CourseListed(c, user_id)},
                         page, limit) :
          last' = ListCall("get_courses_orgslug", user_id, org_slug, rows)
    /\ UNCHANGED <<courses, nextCourse, authors, userorgs, orgs, nextOrg, content,
                   groups, requests, uploads, reorder>>

\* LOWER(course.<field>) LIKE LOWER('%search_query%'): a text is an atom here,
\* and the empty query (NULL) is part of every text.
TextMatches(course, search_query) ==
    \/ search_query = NULL
    \/ course.name = search_query
    \/ (course.description # NULL /\ course.description = search_query)

SearchCourses(user_id, org_slug, search_query, page, limit) ==
    /\ \E rows \in Pages({c \in CoursesOfSlug(org_slug) :
                            TextMatches(c, search_query) /\ CourseListed(c, user_id)},
                         page, limit) :
          last' = ListCall("search_courses", user_id, org_slug, rows)
    /\ UNCHANGED <<courses, nextCourse, authors, userorgs, orgs, nextOrg, content,
                   groups, requests, uploads, reorder>>

ListCourses == 2
NumGroups == 2
MaxGroupRows == 2
MaxLimit == 2

RECURSIVE SubsetsUpTo(_, _)
SubsetsUpTo(S, k) ==
    IF k = 0 THEN {{}}
    ELSE SubsetsUpTo(S, k - 1) \cup {m \cup {x} : m \in SubsetsUpTo(S, k - 1), x \in S}

\* The courses of organization 1, created by user 1, public or not, and the
\* user groups the user-group services have built.
InitList ==
    /\ \E public \in [1..ListCourses -> BOOLEAN] :
          courses = {[id |-> n, org_id |-> 1, name |-> n, description |-> NULL,
                      public |-> public[n]] : n \in 1..ListCourses}
    /\ nextCourse = ListCourses + 1
    /\ authors = [n \in 1..ListCourses |->
                     [resource_uuid |-> CourseUuid(n), user_id |-> 1,
                      authorship |-> "CREATOR", authorship_status |-> "ACTIVE"]]
    /\ orgs = {[id |-> o, slug |-> o, name |-> o] : o \in OrgIds}
    /\ nextOrg = NumOrgs + 1
    /\ userorgs = {}
    /\ chapters = {}
    /\ nextChapter = 1
    /\ course_chapters = EmptyBag
    /\ activities = {}
    /\ nextActivity = 1
    /\ chapter_activities = EmptyBag
    /\ usergroup_resources \in
          SubsetsUpTo([usergroup_id : 1..NumGroups,
                       resource_uuid : {CourseUuid(n) : n \in 1..ListCourses}],
                      MaxGroupRows)
    /\ usergroup_users \in
          SubsetsUpTo([usergroup_id : 1..NumGroups, user_id : Users], MaxGroupRows)
    /\ thumbnail_image = {}
    /\ storage = {}
    /\ requests = [r \in RequestIds |-> IDLE]
    /\ reorder = IDLE
    /\ last = ListCall("init", 0, 0, {})

NextList ==
    \/ \E u \in Subjects, n \in 1..ListCourses : ApplyCourseContributor(u, n)
    \/ \E u \in Subjects, g \in OrgIds, page \in 1..MaxLimit, limit \in 1..MaxLimit :
          GetCoursesOrgslug(u, g, page, limit)
    \/ \E u \in Subjects, g \in OrgIds, q \in {NULL, 1}, limit \in 1..MaxLimit :
          SearchCourses(u, g, q, 1, limit)

SpecList == InitList /\ [][NextList]_vars

(***************************************************************************)
(* The update requests: a course of organization 1 with one chapter and   *)
(* one activity, created by user 1, who is an administrator there.        *)
(***************************************************************************)
NumTexts == 2
Texts == 1..NumTexts
\* An Optional text field of an update object: None or a text.
OptionalTexts == {{}} \cup {{t} : t \in Texts}

\* The update objects a client can submit.  CourseUpdate.name is required;
\* the fields of the chapter and activity updates are all optional.
CourseUpdates ==
    [name : OptionalTexts \ {{}}, description : OptionalTexts,
     public : {{}, {TRUE}, {FALSE}}]
ChapterUpdates == [name : OptionalTexts, description : OptionalTexts]
ActivityUpdates == [name : OptionalTexts, content : OptionalTexts]

InitUpdate ==
    /\ courses = {[id |-> 1, org_id |-> 1, name |-> 1, description |-> NULL,
                    public |-> FALSE]}
    /\ nextCourse = 2
    /\ authors = <<[resource_uuid |-> CourseUuid(1), user_id |-> 1,
                     authorship |-> "CREATOR", authorship_status |-> "ACTIVE"]>>
    /\ orgs = {[id |-> o, slug |-> o, name |-> o] : o \in OrgIds}
    /\ nextOrg = NumOrgs + 1
    /\ userorgs = {[user_id |-> 1, org_id |-> 1, role_id |-> 1]}
    /\ chapters = {[id |-> 1, course_id |-> 1, org_id |-> 1, name |-> 1,
                     description |-> NULL]}
    /\ nextChapter = 2
    /\ course_chapters = SetToBag({[chapter_id |-> 1, course_id |-> 1, org_id |-> 1,
                                     order |-> 1]})
    /\ activities = {[id |-> 1, course_id |-> 1, org_id |-> 1, name |-> 1,
                       content |-> NULL]}
    /\ nextActivity = 2
    /\ chapter_activities = SetToBag({[chapter_id |-> 1, activity_id |-> 1,
                                        course_id |-> 1, org_id |-> 1, order |-> 1]})
    /\ usergroup_resources = {}
    /\ usergroup_users = {}
    /\ thumbnail_image = {}
    /\ storage = {}
    /\ requests = [r \in RequestIds |-> IDLE]
    /\ reorder = IDLE
    /\ last = ContentCall("init", 0, 0, <<>>, "200")

NextUpdate ==
    \/ \E u \in Subjects, course_object \in CourseUpdates :
          UpdateCourse(u, 1, course_object)
    \/ \E u \in Subjects, chapter_object \in ChapterUpdates :
          UpdateChapter(u, 1, chapter_object)
    \/ \E u \in Subjects, activity_object \in ActivityUpdates :
          UpdateActivity(u, 1, activity_object)

SpecUpdate == InitUpdate /\ [][NextUpdate]_vars

(***************************************************************************)
(* Properties of the authorization decisions (specification Spec).        *)
(*                                                                         *)
(* Every step overwrites `last`, and a step that only decides leaves the  *)
(* tables alone, so `last` and the tables of one state describe one call  *)
(* together with the store it was decided against.                        *)
(***************************************************************************)
RUD == {"read", "update", "delete"}
Store == <<courses, nextCourse, authors, userorgs, orgs, nextOrg, content,
          groups, requests, uploads, reorder>>

IsCourseUuid(element_uuid) == \E c \in courses : CourseUuid(c.id) = element_uuid
CourseOf(element_uuid) == CHOOSE c \in courses : CourseUuid(c.id) = element_uuid

\* user_id has an ACTIVE CREATOR / MAINTAINER / CONTRIBUTOR record on the element.
QualifyingAuthorship(user_id, element_uuid) ==
    \E i \in AuthorRows(element_uuid) :
        /\ authors[i].user_id = user_id
        /\ authors[i].authorship \in GrantingAuthorships
        /\ authors[i].authorship_status = "ACTIVE"

\* user_id has a record on the element that is not ACTIVE, or is a REPORTER's.
InertAuthorship(user_id, element_uuid) ==
    \E i \in AuthorRows(element_uuid) :
        /\ authors[i].user_id = user_id
        /\ \/ authors[i].authorship_status # "ACTIVE"
           \/ authors[i].authorship = "REPORTER"

\* Some role assigned to user_id, whatever its scope, permits the action.
AssignedRolePermits(user_id, action, element_uuid) ==
    \E uo \in userorgs :
        /\ uo.user_id = user_id
        /\ Roles[uo.role_id].rights[check_element_type(element_uuid)][action]

\* C1. Anonymous read: the read decision for the anonymous subject on a
\* course is allow exactly when the course is public, and a private course
\* is refused with a Forbidden error.
C1_AnonymousReadIffPublic ==
    (/\ last.op = "rbac_check"
     /\ last.user_id = ANON
     /\ last.action = "read"
     /\ IsCourseUuid(last.element_uuid))
    => /\ (last.outcome = "200") <=> CourseOf(last.element_uuid).public
       /\ ~CourseOf(last.element_uuid).public => last.outcome \in Forbidden

C1_Witness ==
    /\ last.op = "rbac_check"
    /\ last.user_id = ANON
    /\ last.action = "read"
    /\ IsCourseUuid(last.element_uuid)
    /\ ~CourseOf(last.element_uuid).public
    /\ QualifyingAuthorship(1, last.element_uuid)
    /\ last.outcome = "403_rights"

C3_AuthorshipGrants ==
    (/\ last.op = "rbac_check"
     /\ last.user_id # ANON
     /\ last.action \in RUD
     /\ QualifyingAuthorship(last.user_id, last.element_uuid))
    => last.outcome = "200"

\* C4. Default deny: an authenticated subject with no qualifying authorship
\* record on the resource and no assigned role that permits the action on the
\* resource's type is refused read, update and delete.
C4_DefaultDeny ==
    (/\ last.op \in {"rbac_check", "update_course", "delete_course"}
     /\ last.user_id # ANON
     /\ last.action \in RUD
     /\ last.outcome # "404"
     /\ ~QualifyingAuthorship(last.user_id, last.element_uuid)
     /\ ~AssignedRolePermits(last.user_id, last.action, last.element_uuid))
    => last.outcome = "403_roles_authorship"

C4_Witness ==
    /\ last.op = "update_course"
    /\ last.user_id # ANON
    /\ \E uo \in userorgs : uo.user_id = last.user_id /\ uo.role_id = 4
    /\ ~QualifyingAuthorship(last.user_id, last.element_uuid)
    /\ last.outcome = "403_roles_authorship"

\* C5. Inert authorship: the authorship check answers yes only for an ACTIVE
\* record of kind CREATOR, MAINTAINER or CONTRIBUTOR; a subject whom no role
\* grants the action and whose record on the resource is PENDING, INACTIVE or
\* a REPORTER's is refused read, update and delete.
C5_InertAuthorship ==
    (/\ last.op = "rbac_check"
     /\ last.user_id # ANON
     /\ last.action \in RUD)
    => /\ last.isAuthor => QualifyingAuthorship(last.user_id, last.element_uuid)
       /\ (/\ InertAuthorship(last.user_id, last.element_uuid)
           /\ ~QualifyingAuthorship(last.user_id, last.element_uuid)
           /\ ~last.isRole)
          => last.outcome \in Forbidden

C5_Witness ==
    /\ last.op = "rbac_check"
    /\ last.user_id # ANON
    /\ last.action = "update"
    /\ \E i \in AuthorRows(last.element_uuid) :
          /\ authors[i].user_id = last.user_id
          /\ authors[i].authorship = "MAINTAINER"
          /\ authors[i].authorship_status = "INACTIVE"
    /\ ~last.isRole
    /\ last.outcome = "403_roles_authorship"

\* C6. Role scoping: the role check grants the action on a course only
\* through a role assigned to the subject that permits the action and is
\* global or scoped to the organization owning the course; a role scoped to
\* another organization never grants anything on the course.
C6_RoleScoping ==
    (/\ last.op = "rbac_check"
     /\ last.user_id # ANON
     /\ IsCourseUuid(last.element_uuid))
    => (last.isRole =>
          \E uo \in userorgs :
             /\ uo.user_id = last.user_id
             /\ \/ Roles[uo.role_id].org_id = NULL
                \/ Roles[uo.role_id].org_id = CourseOf(last.element_uuid).org_id
             /\ Roles[uo.role_id].rights["courses"][last.action])

\* C8. Create decision: the create decision of an authenticated subject is
\* allow in every store state, whatever its roles and authorship records,
\* because the authorship check answers yes for create.
C8_CreateAlwaysAllowed ==
    (/\ last.op \in {"rbac_check", "create_course"}
     /\ last.action = "create"
     /\ last.user_id # ANON)
    => last.outcome = "200" /\ last.isAuthor

C8_Witness ==
    /\ last.op = "create_course"
    /\ last.user_id # ANON
    /\ ~last.isRole
    /\ \A uo \in userorgs : uo.user_id # last.user_id
    /\ last.outcome = "200"
    /\ \E i \in DOMAIN authors : authors[i].user_id = last.user_id

C7_OrgAdminOfTarget ==
    (/\ last.op = "org_rbac_check"
     /\ last.user_id # ANON
     /\ last.action \in {"update", "delete"})
    => ((last.outcome = "200") <=>
          \E uo \in userorgs :
             /\ uo.user_id = last.user_id
             /\ uo.role_id \in AdminRoleIds
             /\ OrgUuid(uo.org_id) = last.element_uuid)

(***************************************************************************)
(* Properties of the content operations (specification SpecContent).      *)
(***************************************************************************)
ChapterLinksOf(course_id) ==
    {cc \in BagToSet(course_chapters) : cc.course_id = course_id}

ActivityLinksOf(course_id) ==
    {ca \in BagToSet(chapter_activities) : ca.course_id = course_id}

\* C10. Reorder postcondition: after reorder_chapters_and_activities succeeds
\* for course X with the submitted list L, every chapter id of L has exactly
\* one chapter link in X, its order is a 0-based position of the id in L, and X
\* has no link for a chapter id absent from L; likewise every submitted
\* (chapter, activity) pair has exactly one activity link in X, its order is a
\* position of the activity inside that chapter's list, and X has no link for
\* a pair that was not submitted.
C10_ReorderPostcondition ==
    (/\ last.op = "reorder_chapters_and_activities"
     /\ last.outcome = "200")
    => LET L == last.chapters_order
           X == last.course_id
           visits == ActivityVisits(L)
       IN /\ \A p \in DOMAIN L :
                \E cc \in ChapterLinksOf(X) :
                   /\ cc.chapter_id = L[p].chapter_id
                   /\ course_chapters[cc] = 1
                   /\ \E q \in DOMAIN L :
                         L[q].chapter_id = cc.chapter_id /\ cc.order = q - 1
                   /\ \A other \in ChapterLinksOf(X) :
                         other.chapter_id = cc.chapter_id => other = cc
          /\ \A cc \in ChapterLinksOf(X) :
                \E p \in DOMAIN L : L[p].chapter_id = cc.chapter_id
          /\ \A p \in DOMAIN visits :
                \E ca \in ActivityLinksOf(X) :
                   /\ ActivityKey(ca) = ActivityKey(visits[p])
                   /\ chapter_activities[ca] = 1
                   /\ \E q \in DOMAIN visits :
                         /\ ActivityKey(visits[q]) = ActivityKey(ca)
                         /\ ca.order = visits[q].index
                   /\ \A other \in ActivityLinksOf(X) :
                         ActivityKey(other) = ActivityKey(ca) => other = ca
          /\ \A ca \in ActivityLinksOf(X) :
                \E p \in DOMAIN visits : ActivityKey(visits[p]) = ActivityKey(ca)

(***************************************************************************)
(* Properties of the listings (specification SpecList).                   *)
(***************************************************************************)
\* The user groups the course is attached to.
AttachedGroups(course) ==
    {r.usergroup_id : r \in {r \in usergroup_resources :
                                r.resource_uuid = CourseUuid(course.id)}}

MemberOfGroup(user_id, usergroup_id) ==
    \E ugu \in usergroup_users :
        ugu.usergroup_id = usergroup_id /\ ugu.user_id = user_id

\* The course is private, attached to groups, none of them user_id's, and
\* carries no authorship record of user_id.
HiddenFrom(user_id, course) ==
    /\ ~course.public
    /\ AttachedGroups(course) # {}
    /\ \A g \in AttachedGroups(course) : ~MemberOfGroup(user_id, g)
    /\ AuthorshipRows(CourseUuid(course.id), user_id) = {}

UpdateOps == {"update_course", "update_chapter", "update_activity"}

\* new is old with the fields that carry a value in object overwritten by
\* that value, and every other field as it was.
Framed(old, new, object) ==
    /\ DOMAIN new = DOMAIN old
    /\ \A var \in DOMAIN old :
          IF var \in DOMAIN object /\ object[var] # {}
          THEN {new[var]} = object[var]
          ELSE new[var] = old[var]

\* The step from table to table_ changed the row with the id as the object says
\* and no other row.
RowFramed(table, table_, id, object) ==
    \E old \in table, new \in table_ :
        /\ old.id = id /\ new.id = id
        /\ Framed(old, new, object)
        /\ table_ \ {new} = table \ {old}

AtMostOneAuthorshipPerPair ==
    \A i, j \in DOMAIN authors :
        (/\ authors[i].resource_uuid = authors[j].resource_uuid
         /\ authors[i].user_id = authors[j].user_id) => i = j

HasAuthorship(user_id, element_uuid) ==
    \E i \in DOMAIN authors :
        authors[i].resource_uuid = element_uuid /\ authors[i].user_id = user_id

C14_AuthorshipCascade ==
    \A i \in DOMAIN authors : CourseExists(authors[i].resource_uuid[2])

(***************************************************************************)
(* Properties of the organization slugs (specification SpecOrg)            *)
(***************************************************************************)
SlugOps == {"create_org", "create_org_with_config", "update_org"}

\* The slug the call would give an organization is the slug of another one.
\* A create call records the slug as the target of the call.
SlugTaken(call) ==
    IF call.op = "update_org"
    THEN \E o \in orgs : {o.slug} = call.object.slug /\ o.id # call.element_uuid[2]
    ELSE \E o \in orgs : o.slug = call.target

\* C15: no two organizations have the same slug; a create_org or
\* create_org_with_config call with the slug of an existing organization, and
\* an update_org call that gives an existing organization the slug of another
\* one, fails and changes no row, with 409 Conflict (an update_org call whose
\* caller is refused by the authorization check fails with 403 before the slug
\* is looked at).
C15_SlugUniqueness ==
    [][/\ (last'.op \in SlugOps /\ SlugTaken(last')) =>
              /\ UNCHANGED <<orgs, userorgs, courses>>
              /\ \/ last'.outcome = "409_exists"
                 \/ /\ last'.op = "update_org"
                    /\ last'.outcome \in {"404", "403_login", "403_admin"}
       /\ \A o1, o2 \in orgs' : o1.slug = o2.slug => o1.id = o2.id
      ]_vars

\* An administrator's update_org asking for the slug of another organization
\* has been refused with 409.
C15_Witness ==
    /\ last.op = "update_org"
    /\ last.outcome = "409_exists"
    /\ \E o \in orgs : {o.slug} = last.object.slug /\ o.id # last.element_uuid[2]
    /\ \E o \in orgs : o.id = last.element_uuid[2]

(***************************************************************************)
(* Properties of the contributor management (specification Spec)           *)
(***************************************************************************)
\* C16: update_course_contributor succeeds in changing an authorship record
\* only when the caller is an administrator (holds an administrator role).
C16_AdministratorOnly ==
    (last.op = "update_course_contributor" /\ last.outcome = "200") =>
        authorization_verify_based_on_org_admin_status(last.user_id)

(***************************************************************************)
(* Properties of the sibling order (specification SpecOrder)               *)
(***************************************************************************)
\* The order values of the rows are consecutive integers, each carried by
\* one row.
Dense(table, rows) ==
    LET orders == {r.order : r \in rows}
        count == BagCardinality([r \in rows |-> table[r]])
    IN /\ Cardinality(orders) = count
       /\ orders # {} => Max(orders) - Min(orders) = count - 1

\* C17: the order values of the chapter links of a course, and of the activity
\* links of a chapter, are consecutive integers without gap or duplicate.
C17_DenseSiblingOrder ==
    /\ \A c \in courses :
          Dense(course_chapters,
                {cc \in BagToSet(course_chapters) : cc.course_id = c.id})
    /\ \A ch \in chapters :
          Dense(chapter_activities,
                {ca \in BagToSet(chapter_activities) : ca.chapter_id = ch.id})

(***************************************************************************)
(* Properties of the reorder request (specification SpecReorder)           *)
(***************************************************************************)
\* C18: while a reorder request is being processed the link tables that other
\* requests read are those of its start (no part of the submitted order is
\* visible before all of it is), and after a request that failed they are
\* those of its start (none of its changes is persisted).
C18_ReorderTransactional ==
    (InFlight \/ reorder.pc = "failed") =>
        <<course_chapters, chapter_activities>> = reorder.before

(***************************************************************************)
(* Properties of the authorship changes (specification Spec)               *)
(***************************************************************************)
\* The caller passes the role-or-authorship check for update on the element,
\* with some row the authorship lookup may return.
PassesUpdateCheck(user_id, element_uuid) ==
    \/ \E resource_author \in FirstAuthor(element_uuid) :
          authorization_verify_if_user_is_author(user_id, "update", resource_author)
    \/ authorization_verify_based_on_roles(user_id, "update", element_uuid)

\* C19: the kind or the status of an existing authorship record changes only
\* in a step of update_course_contributor on the record's course whose caller
\* is authenticated and passes the role-or-authorship check for update on that
\* course; and a call of a user on their own PENDING record changes nothing
\* when no role of the user grants the update.
C19_AuthorshipChangesGated ==
    [][/\ \A i \in DOMAIN authors \cap DOMAIN authors' :
             (\/ authors'[i].authorship # authors[i].authorship
              \/ authors'[i].authorship_status # authors[i].authorship_status) =>
                 /\ last'.op = "update_course_contributor"
                 /\ last'.outcome = "200"
                 /\ last'.element_uuid = authors[i].resource_uuid
                 /\ last'.target = authors[i].user_id
                 /\ last'.user_id # ANON
                 /\ PassesUpdateCheck(last'.user_id, authors[i].resource_uuid)
       /\ (/\ last'.op = "update_course_contributor"
           /\ last'.target = last'.user_id
           /\ \E i \in DOMAIN authors :
                 /\ authors[i].resource_uuid = last'.element_uuid
                 /\ authors[i].user_id = last'.user_id
                 /\ authors[i].authorship_status = "PENDING"
           /\ ~authorization_verify_based_on_roles(last'.user_id, "update",
                                                   last'.element_uuid)) =>
              authors' = authors
      ]_vars

\* update_course_contributor has turned a pending application into an active
\* contributor record.
C19_Witness ==
    /\ last.op = "update_course_contributor"
    /\ last.outcome = "200"
    /\ \E i \in DOMAIN authors :
          /\ authors[i].resource_uuid = last.element_uuid
          /\ authors[i].user_id = last.target
          /\ authors[i].authorship = "CONTRIBUTOR"
          /\ authors[i].authorship_status = "ACTIVE"

(***************************************************************************)
(* Properties of the calls on absent targets (specification Spec)          *)
(***************************************************************************)
CourseTargetOps == {"update_course", "delete_course", "apply_course_contributor",
                    "update_course_contributor"}

\* C20: a call of a course or contributor operation on a course that does not
\* exist is answered with not found (404), whoever the caller is.  (A refused
\* call changes no row, so the course was absent when the call was made.)
C20_NotFoundFirst ==
    (/\ last.op \in CourseTargetOps
     /\ last.outcome # "200"
     /\ ~CourseExists(last.element_uuid[2])) => last.outcome = "404"

(***************************************************************************)
(* The create, update and delete operations of courses, chapters,          *)
(* activities and organizations together, called by every subject on one   *)
(* organization's course (specification SpecDeny).  User 1 administers     *)
(* organization 1; user 2 and the anonymous subject hold nothing.          *)
(***************************************************************************)
DenyChapters == 1
DenyActivities == 1

InitDeny ==
    /\ courses = {}
    /\ nextCourse = 1
    /\ authors = <<>>
    /\ orgs = {[id |-> o, slug |-> o, name |-> o] : o \in OrgIds}
    /\ nextOrg = NumOrgs + 1
    /\ userorgs = {[user_id |-> 1, org_id |-> 1, role_id |-> 1]}
    /\ chapters = {}
    /\ nextChapter = 1
    /\ course_chapters = EmptyBag
    /\ activities = {}
    /\ nextActivity = 1
    /\ chapter_activities = EmptyBag
    /\ usergroup_resources = {}
    /\ usergroup_users = {}
    /\ thumbnail_image = {}
    /\ storage = {}
    /\ requests = [r \in RequestIds |-> IDLE]
    /\ reorder = IDLE
    /\ last = ContentCall("init", 0, 0, <<>>, "200")

DenyCourseUpdates == [name : {{}}, description : {{}}, public : {{TRUE}}]
DenyChapterUpdates == [name : {{2}}, description : {{}}]
DenyActivityUpdates == [name : {{2}}, content : {{}}]
DenyOrgUpdates == [name : {{NumOrgs + 1}}, slug : {{}}]

NextDeny ==
    \/ \E u \in Subjects : CreateCourse(u, 1, FALSE)
    \/ \E u \in Subjects, course_object \in DenyCourseUpdates :
          UpdateCourse(u, 1, course_object)
    \/ \E u \in Subjects : DeleteCourse(u, 1)
    \/ \E u \in Subjects : nextChapter <= DenyChapters /\ CreateChapter(u, 1)
    \/ \E u \in Subjects, chapter_object \in DenyChapterUpdates :
          UpdateChapter(u, 1, chapter_object)
    \/ \E u \in Subjects : DeleteChapter(u, 1)
    \/ \E u \in Subjects : nextActivity <= DenyActivities /\ CreateActivity(u, 1)
    \/ \E u \in Subjects, activity_object \in DenyActivityUpdates :
          UpdateActivity(u, 1, activity_object)
    \/ \E u \in Subjects : DeleteActivity(u, 1)
    \/ \E u \in Subjects, o \in CurrentOrders(1) : ReorderChaptersAndActivities(u, 1, o)
    \/ \E u \in Subjects, o \in OrgIds, org_object \in DenyOrgUpdates :
          UpdateOrg(u, o, org_object)
    \/ \E u \in Subjects, o \in OrgIds : DeleteOrg(u, o)

SpecDeny == InitDeny /\ [][NextDeny]_vars

DenyOps == {"create_course", "update_course", "delete_course",
            "create_chapter", "update_chapter", "delete_chapter",
            "create_activity", "update_activity", "delete_activity",
            "update_org", "delete_org"}

NextUpload ==
    \/ \E u \in Subjects, thumbnail_file \in BOOLEAN, name_in_disk \in FileNames,
          upload_content_raises \in BOOLEAN :
          CreateCourseWithThumbnail(u, 1, FALSE, thumbnail_file, name_in_disk,
                                    upload_content_raises)
    \/ \E u \in Subjects, thumbnail_file \in BOOLEAN, name_in_disk \in FileNames,
          upload_content_raises \in BOOLEAN :
          UpdateCourseThumbnail(u, 1, thumbnail_file, name_in_disk, upload_content_raises)
    \/ \E u \in Subjects : DeleteCourse(u, 1)

SpecUpload == InitDeny /\ [][NextUpload]_vars

UploadOps == {"create_course", "update_course_thumbnail"}

\* C22: a thumbnail upload whose storage write failed never ends as a success
\* of create_course or update_course_thumbnail.
C22_UploadFailureReported ==
    (/\ last.op \in UploadOps
     /\ "upload" \in DOMAIN last
     /\ last.upload = "failed") => last.outcome # "200"

(***************************************************************************)
(* Read access of the anonymous and the signed-in subject compared         *)
(* (specification Spec)                                                    *)
(***************************************************************************)
\* C23: whenever the anonymous subject's read decision on a course is allow
\* (the course is public), the read decision of a signed-in subject on the
\* same course is allow too.
C23_AuthenticatingKeepsReadAccess ==
    (/\ last.op = "rbac_check"
     /\ last.action = "read"
     /\ last.user_id # ANON
     /\ IsCourseUuid(last.element_uuid)
     /\ rbac_check(last.element_uuid, ANON, "read", 0) = "200")
    => last.outcome = "200"

(***************************************************************************)
(* services/explore/explore.py: the explore reads, open to every caller    *)
(* (specification SpecExplore).                                            *)
(***************************************************************************)
ExploreCall(op, target, rows, outcome) ==
    [op |-> op, target |-> target, rows |-> rows, outcome |-> outcome]

\* select(Course).where(Course.org_id == org.id, Course.public == True)
GetCoursesForAnOrgExplore(org_id) ==
    /\ last' = IF ~OrgExists(org_id)
               THEN ExploreCall("get_courses_for_an_org_explore", org_id, {}, "404")
               ELSE ExploreCall("get_courses_for_an_org_explore", org_id,
                                {c \in courses : c.org_id = org_id /\ c.public}, "200")
    /\ UNCHANGED Store

\* select(Course).where(Course.id == course_id), then the course with its authors
GetCourseForExplore(course_id) ==
    /\ last' = IF ~CourseExists(course_id)
               THEN ExploreCall("get_course_for_explore", course_id, {}, "404")
               ELSE ExploreCall("get_course_for_explore", course_id,
                                {CourseRow(course_id)}, "200")
    /\ UNCHANGED Store

ExploreCourseUpdates == [name : {{}}, description : {{}}, public : {{TRUE}, {FALSE}}]

NextExplore ==
    \/ \E u \in Subjects, o \in OrgIds, public \in BOOLEAN : CreateCourse(u, o, public)
    \/ \E u \in Subjects, course_object \in ExploreCourseUpdates :
          UpdateCourse(u, 1, course_object)
    \/ \E u \in Subjects : DeleteCourse(u, 1)
    \/ \E u \in Subjects, o \in OrgIds : DeleteOrg(u, o)
    \/ \E o \in AllOrgIds : GetCoursesForAnOrgExplore(o)
    \/ \E n \in 1..(MaxCourses + 1) : GetCourseForExplore(n)

SpecExplore == InitDeny /\ [][NextExplore]_vars

ExploreOps == {"get_courses_for_an_org_explore", "get_course_for_explore"}

\* C24: no course returned by get_courses_for_an_org_explore or
\* get_course_for_explore has its public flag false.
C24_ExploreOnlyPublic ==
    (last.op \in ExploreOps /\ last.outcome = "200") =>
        \A course \in last.rows : course.public

(***************************************************************************)
(* Two courses of one organization, each with its own chapter and          *)
(* activity, reordered by every subject with every list of existing        *)
(* chapters and activities, and their activities deleted (specification    *)
(* SpecCross).                                                             *)
(***************************************************************************)
CrossCourses == 2

InitCross ==
    /\ courses = {[id |-> n, org_id |-> 1, name |-> n, description |-> NULL,
                    public |-> FALSE] : n \in 1..CrossCourses}
    /\ nextCourse = CrossCourses + 1
    /\ authors = [n \in 1..CrossCourses |->
                     [resource_uuid |-> CourseUuid(n), user_id |-> 1,
                      authorship |-> "CREATOR", authorship_status |-> "ACTIVE"]]
    /\ orgs = {[id |-> o, slug |-> o, name |-> o] : o \in OrgIds}
    /\ nextOrg = NumOrgs + 1
    /\ userorgs = {}
    /\ chapters = {[id |-> n, course_id |-> n, org_id |-> 1, name |-> n,
                     description |-> NULL] : n \in 1..CrossCourses}
    /\ nextChapter = CrossCourses + 1
    /\ course_chapters = SetToBag({[chapter_id |-> n, course_id |-> n, org_id |-> 1,
                                     order |-> 1] : n \in 1..CrossCourses})
    /\ activities = {[id |-> n, course_id |-> n, org_id |-> 1, name |-> n,
                       content |-> NULL] : n \in 1..CrossCourses}
    /\ nextActivity = CrossCourses + 1
    /\ chapter_activities = SetToBag({[chapter_id |-> n, activity_id |-> n,
                                        course_id |-> n, org_id |-> 1, order |-> 1] :
                                      n \in 1..CrossCourses})
    /\ usergroup_resources = {}
    /\ usergroup_users = {}
    /\ thumbnail_image = {}
    /\ storage = {}
    /\ requests = [r \in RequestIds |-> IDLE]
    /\ reorder = IDLE
    /\ last = ContentCall("init", 0, 0, <<>>, "200")

\* The orders submitted: existing chapters, each at most once, each with at
\* most one existing activity.
CrossOrders ==
    LET entries == [chapter_id : {ch.id : ch \in chapters},
                    activities_order_by_ids : SeqsUpTo({a.id : a \in activities}, 1)]
    IN {o \in SeqsUpTo(entries, CrossCourses) :
           \A p, q \in DOMAIN o : o[p].chapter_id = o[q].chapter_id => p = q}

NextCross ==
    \/ \E u \in Subjects, n \in 1..CrossCourses, o \in CrossOrders :
          ReorderChaptersAndActivities(u, n, o)
    \/ \E u \in Subjects, a \in 1..CrossCourses : DeleteActivity(u, a)

SpecCross == InitCross /\ [][NextCross]_vars

\* C25: every chapter order link joins a course to a chapter of that course,
\* and every chapter-activity link of a course joins a chapter and an activity
\* that both belong to that course.
C25_LinksInsideCourse ==
    /\ \A cc \in BagToSet(course_chapters) :
          ChapterExists(cc.chapter_id) =>
              ChapterRow(cc.chapter_id).course_id = cc.course_id
    /\ \A ca \in BagToSet(chapter_activities) :
          /\ ChapterExists(ca.chapter_id) =>
                ChapterRow(ca.chapter_id).course_id = ca.course_id
          /\ ActivityExists(ca.activity_id) =>
                ActivityRow(ca.activity_id).course_id = ca.course_id

(***************************************************************************)
(* The listing compared with the single read (specification SpecList)      *)
(***************************************************************************)
\* get_course: 404 when the course is absent, else what rbac_check(read) says.
get_course(user_id, n, resource_author) ==
    IF ~CourseExists(n) THEN "404"
    ELSE rbac_check(CourseUuid(n), user_id, "read", resource_author)

\* C26: every course that get_courses_orgslug returns to a subject is a course
\* that get_course answers for the same subject.
C26_ListAndReadAgree ==
    last.op = "get_courses_orgslug" =>
        \A n \in last.result :
            \A resource_author \in FirstAuthor(CourseUuid(n)) :
                get_course(last.user_id, n, resource_author) = "200"

(***************************************************************************)
(* A creator who holds no role, working on the content of the course       *)
(* (specification SpecCreator): user 1 created course 1 and belongs to no  *)
(* organization.                                                           *)
(***************************************************************************)
CreatorChapters == 1
CreatorActivities == 1

NextCreator ==
    \/ \E u \in Subjects : nextChapter <= CreatorChapters /\ CreateChapter(u, 1)
    \/ \E u \in Subjects : nextActivity <= CreatorActivities /\ CreateActivity(u, 1)
    \/ \E u \in Subjects, chapter_object \in ChapterUpdates :
          UpdateChapter(u, 1, chapter_object)
    \/ \E u \in Subjects, activity_object \in ActivityUpdates :
          UpdateActivity(u, 1, activity_object)
    \/ \E u \in Subjects : DeleteChapter(u, 1)
    \/ \E u \in Subjects : DeleteActivity(u, 1)

SpecCreator == InitContent /\ [][NextCreator]_vars

\* user_id holds the ACTIVE CREATOR record of the course.
ActiveCreator(user_id, course_id) ==
    \E i \in AuthorRows(CourseUuid(course_id)) :
        /\ authors[i].user_id = user_id
        /\ authors[i].authorship = "CREATOR"
        /\ authors[i].authorship_status = "ACTIVE"

\* C27: the ACTIVE creator of a course, holding no role, is allowed to update
\* and to delete the chapters of the course.
C27_CreatorManagesChapters ==
    /\ (/\ last.op = "update_chapter"
        /\ ChapterExists(last.element_uuid[2])
        /\ ActiveCreator(last.user_id, ChapterRow(last.element_uuid[2]).course_id)
        /\ user_roles_in_organization_and_standard_roles(last.user_id) = {})
       => last.outcome = "200"
    /\ (/\ last.op = "delete_chapter"
        /\ last.outcome # "409"
        /\ ActiveCreator(last.user_id, last.course_id)
        /\ user_roles_in_organization_and_standard_roles(last.user_id) = {})
       => last.outcome = "200"

(***************************************************************************)
(* The creator records of a course (specification Spec)                    *)
(***************************************************************************)
CreatorRecords(element_uuid) ==
    {i \in AuthorRows(element_uuid) : authors[i].authorship = "CREATOR"}

\* C28: whatever create_course, apply_course_contributor and
\* update_course_contributor calls were made, no course has more than one
\* CREATOR record.
C28_SingleCreator ==
    \A i \in DOMAIN authors :
        Cardinality(CreatorRecords(authors[i].resource_uuid)) <= 1

\* C29: no chapter-activity link references an activity that delete_activity
\* has deleted, also when the activity was linked into several chapters.
C29_NoDanglingActivityLink ==
    \A ca \in BagToSet(chapter_activities) : ActivityExists(ca.activity_id)

(***************************************************************************)
(* create_chapter and create_activity statement by statement, two requests *)
(* side by side, each in its own session (specification SpecAppend).  A    *)
(* request reads and writes the store only through its own statements;     *)
(* nothing orders the statements of one request against the other's.       *)
(***************************************************************************)
Returned(r, outcome) ==
    [requests EXCEPT ![r] = [pc |-> "returned", outcome |-> outcome]]

\* create_chapter up to the read of the last order (lines 42-62).
CreateChapterRead(r, user_id, course_id) ==
    /\ requests[r] = IDLE
    /\ IF ~CourseExists(course_id)
       THEN /\ requests' = Returned(r, "500")
            /\ last' = ContentCall("create_chapter", user_id, course_id, <<>>, "500")
       ELSE LET decision == rbac_check(CHAPTER_X, user_id, "create", 0) IN
            /\ last' = ContentCall("create_chapter", user_id, course_id, <<>>, decision)
            /\ requests' =
                  IF decision # "200" THEN Returned(r, decision)
                  ELSE [requests EXCEPT ![r] =
                           [pc |-> "chapter", op |-> "create_chapter",
                            user_id |-> user_id, parent |-> course_id,
                            to_be_used_order |-> LastChapterOrder(course_id) + 1]]
    /\ UNCHANGED <<courses, nextCourse, authors, userorgs, orgs, nextOrg, content, groups,
                   uploads, reorder>>

\* db_session.add(chapter); db_session.commit() (lines 65-68)
CreateChapterInsert(r) ==
    /\ requests[r].pc = "chapter"
    /\ chapters' = chapters \cup
          {[id |-> nextChapter, course_id |-> requests[r].parent,
            org_id |-> CourseRow(requests[r].parent).org_id,
            name |-> nextChapter, description |-> NULL]}
    /\ nextChapter' = nextChapter + 1
    /\ requests' = [requests EXCEPT ![r] =
          [pc |-> "link", op |-> "create_chapter", user_id |-> requests[r].user_id,
           parent |-> requests[r].parent,
           to_be_used_order |-> requests[r].to_be_used_order, id |-> nextChapter]]
    /\ UNCHANGED <<courses, nextCourse, authors, userorgs, orgs, nextOrg, groups, uploads,
                   reorder, course_chapters, activities, nextActivity,
                   chapter_activities, last>>

\* The CourseChapter link, inserted unless the same row exists (lines 74-96).
CreateChapterLink(r) ==
    /\ requests[r].pc = "link"
    /\ requests[r].op = "create_chapter"
    /\ LET course_chapter == [chapter_id |-> requests[r].id,
                              course_id |-> requests[r].parent,
                              org_id |-> ChapterRow(requests[r].id).org_id,
                              order |-> requests[r].to_be_used_order]
       IN course_chapters' = IF course_chapter \in BagToSet(course_chapters)
                             THEN course_chapters
                             ELSE course_chapters (+) SetToBag({course_chapter})
    /\ requests' = [requests EXCEPT ![r] =
          [pc |-> "returned", outcome |-> "200", op |-> "create_chapter",
           parent |-> requests[r].parent, id |-> requests[r].id]]
    /\ last' = ContentCall("create_chapter", requests[r].user_id, requests[r].parent,
                           <<>>, "200")
    /\ UNCHANGED <<courses, nextCourse, authors, userorgs, orgs, nextOrg, groups, uploads,
                   reorder, chapters, nextChapter, activities, nextActivity,
                   chapter_activities>>

\* create_activity up to the commit of the Activity row (lines 33-65).
CreateActivityInsert(r, user_id, chapter_id) ==
    /\ requests[r] = IDLE
    /\ IF ~ChapterExists(chapter_id) \/ ~CourseExists(ChapterRow(chapter_id).course_id)
       THEN /\ requests' = Returned(r, "404")
            /\ last' = ContentCall("create_activity", user_id, 0, <<>>, "404")
            /\ UNCHANGED <<activities, nextActivity>>
       ELSE LET chapter == ChapterRow(chapter_id)
                decision == rbac_check(CourseUuid(chapter.course_id), user_id, "create", 0)
            IN
            /\ last' = ContentCall("create_activity", user_id, chapter.course_id, <<>>,
                                   decision)
            /\ IF decision # "200"
               THEN /\ requests' = Returned(r, decision)
                    /\ UNCHANGED <<activities, nextActivity>>
               ELSE /\ activities' = activities \cup
                          {[id |-> nextActivity, course_id |-> chapter.course_id,
                            org_id |-> chapter.org_id,
                            name |-> nextActivity, content |-> NULL]}
                    /\ nextActivity' = nextActivity + 1
                    /\ requests' = [requests EXCEPT ![r] =
                          [pc |-> "order", op |-> "create_activity",
                           user_id |-> user_id, parent |-> chapter_id,
                           id |-> nextActivity]]
    /\ UNCHANGED <<courses, nextCourse, authors, userorgs, orgs, nextOrg, groups, uploads,
                   reorder, chapters, nextChapter, course_chapters, chapter_activities>>

\* The read of the chapter's last order (lines 68-76).
CreateActivityRead(r) ==
    /\ requests[r].pc = "order"
    /\ requests' = [requests EXCEPT ![r] =
          [pc |-> "link", op |-> "create_activity", user_id |-> requests[r].user_id,
           parent |-> requests[r].parent,
           to_be_used_order |-> LastActivityOrder(requests[r].parent) + 1,
           id |-> requests[r].id]]
    /\ UNCHANGED <<courses, nextCourse, authors, userorgs, orgs, nextOrg, content, groups,
                   uploads, reorder, last>>

\* The ChapterActivity link (lines 79-93).
CreateActivityLink(r) ==
    /\ requests[r].pc = "link"
    /\ requests[r].op = "create_activity"
    /\ LET activity == ActivityRow(requests[r].id) IN
       chapter_activities' = chapter_activities (+) SetToBag(
          {[chapter_id |-> requests[r].parent, activity_id |-> requests[r].id,
            course_id |-> activity.course_id, org_id |-> activity.org_id,
            order |-> requests[r].to_be_used_order]})
    /\ requests' = [requests EXCEPT ![r] =
          [pc |-> "returned", outcome |-> "200", op |-> "create_activity",
           parent |-> requests[r].parent, id |-> requests[r].id]]
    /\ last' = ContentCall("create_activity", requests[r].user_id,
                           ActivityRow(requests[r].id).course_id, <<>>, "200")
    /\ UNCHANGED <<courses, nextCourse, authors, userorgs, orgs, nextOrg, groups, uploads,
                   reorder, chapters, nextChapter, course_chapters, activities,
                   nextActivity>>

NextAppend ==
    \/ \E r \in RequestIds, u \in Subjects : CreateChapterRead(r, u, 1)
    \/ \E r \in RequestIds : CreateChapterInsert(r)
    \/ \E r \in RequestIds : CreateChapterLink(r)
    \/ \E r \in RequestIds, u \in Subjects : CreateActivityInsert(r, u, 1)
    \/ \E r \in RequestIds : CreateActivityRead(r)
    \/ \E r \in RequestIds : CreateActivityLink(r)

SpecAppend == InitUpdate /\ [][NextAppend]_vars

\* The requests that have returned a new child of one parent.
Appended(r1, r2) ==
    /\ r1 # r2
    /\ requests[r1].pc = "returned" /\ requests[r1].outcome = "200"
    /\ requests[r2].pc = "returned" /\ requests[r2].outcome = "200"
    /\ requests[r1].op = requests[r2].op
    /\ requests[r1].parent = requests[r2].parent

\* C30: two create_chapter requests on one course that ran side by side leave
\* links with different orders, and so do two create_activity requests on one
\* chapter.
C30_DistinctAppendPositions ==
    \A r1, r2 \in RequestIds :
        Appended(r1, r2) =>
            IF requests[r1].op = "create_chapter"
            THEN \A cc1, cc2 \in BagToSet(course_chapters) :
                    (/\ cc1.chapter_id = requests[r1].id
                     /\ cc2.chapter_id = requests[r2].id) => cc1.order # cc2.order
            ELSE \A ca1, ca2 \in BagToSet(chapter_activities) :
                    (/\ ca1.activity_id = requests[r1].id
                     /\ ca2.activity_id = requests[r2].id) => ca1.order # ca2.order

====
